---- MODULE Spec2Model ----
(***************************************************************************)
(* Tracker: the item store (sync upsert, overlay patch, listing, overdue   *)
(* derivation) and the PATCH and GET routes in front of it.                *)
(*                                                                         *)
(* The items table is a map from the identity triple                       *)
(* <<kind, repo_full_name, external_key>> to a row.  UpsertCore runs in a  *)
(* database transaction, one statement per step; PatchCustom issues a      *)
(* SELECT and an UPDATE as two separate statements on the pool.  Instants  *)
(* are whole hours since 2024-01-01T00:00:00Z.                             *)
(***************************************************************************)
EXTENDS Integers, Sequences, FiniteSets, TLC

VARIABLES
    table,        \* items table: identity triple -> row (committed state)
    dbLock,       \* holder of the database write lock, or "free"
    tx,           \* per upsert caller: the running UpsertCore call
    upsertRet,    \* per upsert caller: (count, err) of the last UpsertCore
    patch,        \* per patch caller: the running PatchCustom call
    patchRet,     \* per patch caller: response of the last PATCH request
    nCalls,       \* requests started (UpsertCore calls and PATCH requests)
    lastPatched,  \* history: overlay columns written by the last UPDATE, per identity
    lastValid,    \* history: last written record per identity, of committed batches
    resynced,     \* history: a commit changed the external data of a patched row since the last patch
    ov,           \* overdue derivation: input and result of one computation
    alg,          \* repeated upsert: the batch, the tables before and after its first application
    listRet,      \* response of the last GET /api/items request
    com,          \* two batches and the tables their two orders of application leave
    walk,         \* one listPaged call: the page walk of the remote client
    fetch,        \* one fetched page: raw records, normalized items, rows written
    sync,         \* one POST /api/sync request: its position, counts and response
    ui            \* one save of an edited row in the web UI

vars == <<table, dbLock, tx, upsertRet, patch, patchRet, nCalls,
          lastPatched, lastValid, resynced, ov, alg, listRet, com,
          walk, fetch, sync, ui>>

storeVars == <<table, dbLock, tx, upsertRet, patch, patchRet, nCalls,
               lastPatched, lastValid, resynced>>

remoteVars == <<walk, fetch, sync, ui>>

----------------------------------------------------------------------------
(* Bounds *)

MaxCalls == 3        \* requests (UpsertCore calls and PATCH requests) per behaviour
MaxBatchLen == 2     \* records per batch
MaxNow == 400        \* latest instant, in hours since the epoch
MaxPageLen == 3      \* raw records per fetched page
MaxRemotePages == 2  \* pages of records the remote holds

UpsertProcs == {"u1"}
PatchProcs == {"p1"}

----------------------------------------------------------------------------
(* Time strings and parsing *)

HoursPerDay == 24
FallbackDays == 14

\* the priority shown as low, the lowest urgency
PriorityLow == 3

\* the safety cap of the page walk
PageCap == 50

\* The date strings in play; "" is the column default (absent).
DueStrings == {"", "2024-01-02", "2024-01-03T12:00:00Z", "2024-01-03T12:00:00+08:00",
               "2024-01-04T09:00", "soon"}
CreatedStrings == {"", "2024-01-01T00:00:00Z", "2024-01-02T12:00:00Z"}

\* strings.Contains(s, "T")
ContainsT(s) == s \in {"2024-01-03T12:00:00Z", "2024-01-03T12:00:00+08:00", "2024-01-04T09:00",
                       "2024-01-01T00:00:00Z", "2024-01-02T12:00:00Z"}

\* time.Parse(time.RFC3339, s): the instant, or -1 for a parse error
ParseRFC3339(s) ==
    CASE s = "2024-01-01T00:00:00Z" -> 0
      [] s = "2024-01-02T12:00:00Z" -> 36
      [] s = "2024-01-03T12:00:00Z" -> 60
      [] s = "2024-01-03T12:00:00+08:00" -> 52
      [] OTHER -> -1

\* time.Parse("2006-01-02", s): midnight UTC of the day, or -1 for a parse error
ParseDate(s) ==
    CASE s = "2024-01-02" -> 24
      [] s = "2024-01-05" -> 96
      [] s = "2024-01-10" -> 216
      [] OTHER -> -1

\* position of s in the byte order of the strings in play: the order SQLite's
\* BINARY collation gives TEXT values
TextRank(s) ==
    CASE s = "" -> 0
      [] s = "2024-01-01T00:00:00Z" -> 1
      [] s = "2024-01-02" -> 2
      [] s = "2024-01-02T12:00:00Z" -> 3
      [] s = "2024-01-03T12:00:00+08:00" -> 4
      [] s = "2024-01-03T12:00:00Z" -> 5
      [] s = "2024-01-04T09:00" -> 6
      [] s = "2024-01-05" -> 7
      [] s = "2024-01-10" -> 8
      [] s = "soon" -> 9

\* int(x): conversion of a float to int truncates toward zero
TruncDiv(a, b) == IF a >= 0 THEN a \div b ELSE -((-a) \div b)

computeOverdueDaysRounded(dueAt, now) ==
    IF dueAt = "" THEN 0
    ELSE LET t == IF ContainsT(dueAt) THEN ParseRFC3339(dueAt) ELSE ParseDate(dueAt)
         IN  IF t = -1 THEN 0
             ELSE IF now < t THEN 0
             ELSE TruncDiv(now - t + (HoursPerDay \div 2), HoursPerDay)

\* computeOverdueDays(dueAt) evaluated at time.Now() = now
computeOverdueDays(dueAt, now) ==
    IF dueAt = "" THEN 0
    ELSE LET t == IF ContainsT(dueAt) THEN ParseRFC3339(dueAt) ELSE ParseDate(dueAt)
         IN  IF t = -1 THEN 0
             ELSE IF now < t THEN 0
             ELSE TruncDiv(now - t, HoursPerDay)

\* the browser's time zone, in hours east of UTC
BrowserZones == {0, 8}

\* new Date(s).getTime(): the instant, or -1 for an invalid date; a date without
\* a time is midnight UTC, a date and time without an offset is local time
JSDateParse(s, zone) ==
    CASE s = "2024-01-04T09:00" -> ParseDate("2024-01-02") + 2 * HoursPerDay + 9 - zone
      [] ContainsT(s) -> ParseRFC3339(s)
      [] OTHER -> ParseDate(s)

\* derivedOverdueDays(it) of the repository board, evaluated at new Date() = now
derivedOverdueDays(dueAt, createdAt, now, zone) ==
    LET due == IF dueAt # "" THEN JSDateParse(dueAt, zone) ELSE -1
        created == JSDateParse(createdAt, zone)
        target == IF due # -1 THEN due
                  ELSE IF created # -1 THEN created + FallbackDays * HoursPerDay
                  ELSE -1
    IN  IF target = -1 THEN 0 ELSE (now - target) \div HoursPerDay

----------------------------------------------------------------------------
(* Identities, records, rows *)

Issue1 == <<"issue", "openeuler/yuanrong", "1">>
Pull1 == <<"pr", "openeuler/yuanrong", "1">>
Idents == {Issue1, Pull1}

CoreItem(id, title, state, createdAt, updatedAt) ==
    [Kind |-> id[1], RepoFullName |-> id[2], ExternalKey |-> id[3],
     Title |-> title, State |-> state, URL |-> "https://gitcode.com/x", Author |-> "ann",
     CreatedAt |-> createdAt, UpdatedAt |-> updatedAt]

\* The records a fetch can deliver: two versions of the issue, the pull request
\* with the same number, and a record of the issue without a title.
CoreItems ==
    { CoreItem(Issue1, "crash", "open", "2024-01-01T00:00:00Z", "2024-01-01T00:00:00Z"),
      CoreItem(Issue1, "crash on start", "closed", "2024-01-01T00:00:00Z", "2024-01-02T12:00:00Z"),
      CoreItem(Pull1, "fix crash", "open", "2024-01-02T12:00:00Z", "2024-01-02T12:00:00Z"),
      CoreItem(Issue1, "", "open", "2024-01-01T00:00:00Z", "2024-01-02T12:00:00Z") }

Batches == UNION { [1..n -> CoreItems] : n \in 0..MaxBatchLen }

IdentOf(it) == <<it.Kind, it.RepoFullName, it.ExternalKey>>

ExternalCols == {"title", "state", "url", "author", "created_at", "updated_at"}
OverlayCols == {"assignee", "assignee_group", "note", "estimated_resolve_at",
                "sync_internal", "priority", "due_at"}

\* Column defaults of CREATE TABLE items
DefaultOverlay ==
    [assignee |-> "", assignee_group |-> "", note |-> "", estimated_resolve_at |-> "",
     sync_internal |-> 0, priority |-> 0, due_at |-> ""]

External(r) == [c \in ExternalCols |-> r[c]]
Overlay(r) == [c \in OverlayCols |-> r[c]]

ExternalOf(it) ==
    [title |-> it.Title, state |-> it.State, url |-> it.URL, author |-> it.Author,
     created_at |-> it.CreatedAt, updated_at |-> it.UpdatedAt]

EmptyTable == [id \in {} |-> DefaultOverlay]

Put(t, id, row) == [k \in DOMAIN t \cup {id} |-> IF k = id THEN row ELSE t[k]]

----------------------------------------------------------------------------
(* UpsertCore: the statement and the transaction *)

NewRow(it) ==
    [c \in ExternalCols \cup OverlayCols |->
        IF c \in ExternalCols THEN ExternalOf(it)[c] ELSE DefaultOverlay[c]]

\* INSERT OR REPLACE: the conflicting row is replaced by a new one
ExecUpsertReplace(t, it) == Put(t, IdentOf(it), NewRow(it))

\* ON CONFLICT DO NOTHING: the conflicting row is kept as it is
ExecUpsertIgnore(t, it) == IF IdentOf(it) \in DOMAIN t THEN t ELSE Put(t, IdentOf(it), NewRow(it))

\* the two timestamps exchanged in the DO UPDATE SET list
ExecUpsertSwapped(t, it) ==
    LET id == IdentOf(it)
    IN  IF id \in DOMAIN t
        THEN Put(t, id, [t[id] EXCEPT !.title = it.Title, !.state = it.State,
                                      !.url = it.URL, !.author = it.Author,
                                      !.created_at = it.UpdatedAt,
                                      !.updated_at = it.CreatedAt])
        ELSE Put(t, id, NewRow(it))

\* a DO UPDATE SET list that names the title only
ExecUpsertTitleOnly(t, it) ==
    LET id == IdentOf(it)
    IN  IF id \in DOMAIN t
        THEN Put(t, id, [t[id] EXCEPT !.title = it.Title])
        ELSE Put(t, id, NewRow(it))

\* a conflict target without the kind: ON CONFLICT(repo_full_name, external_key)
ExecUpsertNoKind(t, it) ==
    LET hit == {k \in DOMAIN t : k[2] = it.RepoFullName /\ k[3] = it.ExternalKey}
    IN  IF hit # {}
        THEN [k \in DOMAIN t |->
                IF k \in hit
                THEN [t[k] EXCEPT !.title = it.Title, !.state = it.State,
                                  !.url = it.URL, !.author = it.Author,
                                  !.created_at = it.CreatedAt,
                                  !.updated_at = it.UpdatedAt]
                ELSE t[k]]
        ELSE Put(t, IdentOf(it), NewRow(it))

\* INSERT ... ON CONFLICT(kind, repo_full_name, external_key) DO UPDATE SET ...
ExecUpsert(t, it) ==
    LET id == IdentOf(it)
    IN  IF id \in DOMAIN t
        THEN Put(t, id, [t[id] EXCEPT !.title = it.Title, !.state = it.State,
                                      !.url = it.URL, !.author = it.Author,
                                      !.created_at = it.CreatedAt,
                                      !.updated_at = it.UpdatedAt])
        ELSE Put(t, id, NewRow(it))

\* a validity test that looks at the key only
SkippedKeyOnly(it) == it.ExternalKey = ""

\* the validity test at the head of the loop body
Skipped(it) ==
    it.Kind = "" \/ it.RepoFullName = "" \/ it.ExternalKey = "" \/ it.Title = ""

\* the table a committed UpsertCore(items) leaves, started on table t
RECURSIVE UpsertTable(_, _)
UpsertTable(t, items) ==
    IF items = <<>> THEN t
    ELSE LET it == Head(items)
         IN  UpsertTable(IF Skipped(it) THEN t ELSE ExecUpsert(t, it), Tail(items))

\* number of records of items that UpsertCore writes
Written(items) == Cardinality({i \in 1..Len(items) : ~Skipped(items[i])})

IdleTx == [pc |-> "idle", items |-> <<>>, i |-> 0, count |-> 0, view |-> EmptyTable]

\* the table as the transaction of u sees it
TxView(u) == IF dbLock = u THEN tx[u].view ELSE table

\* history of a commit: the last record of items per identity
LastOf(items, id, writtenOnly) ==
    LET idx == {i \in 1..Len(items) :
                   IdentOf(items[i]) = id /\ (writtenOnly => ~Skipped(items[i]))}
    IN  IF idx = {} THEN 0 ELSE CHOOSE i \in idx : \A j \in idx : j <= i

Record(hist, items, writtenOnly) ==
    LET seen == {id \in Idents : LastOf(items, id, writtenOnly) > 0}
    IN  [id \in DOMAIN hist \cup seen |->
            IF id \in seen THEN ExternalOf(items[LastOf(items, id, writtenOnly)])
            ELSE hist[id]]

WrittenIdents(items) == {id \in Idents : LastOf(items, id, TRUE) > 0}

patchVars == <<patch, patchRet, lastPatched>>
histVars == <<lastValid, resynced>>
calcVars == <<ov, alg, listRet, com, remoteVars>>

\* len(items) == 0: return 0, nil
UpsertEmpty(u) ==
    /\ tx[u].pc = "idle"
    /\ nCalls < MaxCalls
    /\ nCalls' = nCalls + 1
    /\ tx' = [tx EXCEPT ![u] = IdleTx]
    /\ upsertRet' = [upsertRet EXCEPT ![u] = [count |-> 0, err |-> "nil"]]
    /\ UNCHANGED <<table, dbLock, patchVars, histVars, calcVars>>

\* BeginTx and PrepareContext succeed
UpsertBegin(u, items) ==
    /\ tx[u].pc = "idle"
    /\ nCalls < MaxCalls
    /\ Len(items) > 0
    /\ nCalls' = nCalls + 1
    /\ tx' = [tx EXCEPT ![u] = [pc |-> "loop", items |-> items, i |-> 1, count |-> 0,
                                view |-> EmptyTable]]
    /\ upsertRet' = [upsertRet EXCEPT ![u] = [count |-> 0, err |-> "pending"]]
    /\ UNCHANGED <<table, dbLock, patchVars, histVars, calcVars>>

\* a non-empty batch, BeginTx or PrepareContext fails: return 0, err
UpsertBeginFail(u) ==
    /\ tx[u].pc = "idle"
    /\ nCalls < MaxCalls
    /\ nCalls' = nCalls + 1
    /\ tx' = [tx EXCEPT ![u] = IdleTx]
    /\ upsertRet' = [upsertRet EXCEPT ![u] = [count |-> 0, err |-> "storage"]]
    /\ UNCHANGED <<table, dbLock, patchVars, histVars, calcVars>>

\* loop body, record fails the validity test: continue
UpsertSkip(u) ==
    /\ tx[u].pc = "loop"
    /\ tx[u].i <= Len(tx[u].items)
    /\ Skipped(tx[u].items[tx[u].i])
    /\ tx' = [tx EXCEPT ![u].i = @ + 1]
    /\ UNCHANGED <<table, dbLock, upsertRet, nCalls, patchVars, histVars, calcVars>>

\* loop body as it would run outside a transaction: each statement commits
UpsertExecAutocommit(u) ==
    /\ tx[u].pc = "loop"
    /\ tx[u].i <= Len(tx[u].items)
    /\ ~Skipped(tx[u].items[tx[u].i])
    /\ dbLock \in {"free", u}
    /\ dbLock' = u
    /\ table' = ExecUpsert(table, tx[u].items[tx[u].i])
    /\ tx' = [tx EXCEPT ![u].view = ExecUpsert(table, tx[u].items[tx[u].i]),
                        ![u].count = @ + 1, ![u].i = @ + 1]
    /\ UNCHANGED <<upsertRet, nCalls, patchVars, histVars, calcVars>>

\* loop body, stmt.ExecContext succeeds inside the transaction: count++
UpsertExec(u) ==
    /\ tx[u].pc = "loop"
    /\ tx[u].i <= Len(tx[u].items)
    /\ ~Skipped(tx[u].items[tx[u].i])
    /\ dbLock \in {"free", u}
    /\ dbLock' = u
    /\ tx' = [tx EXCEPT ![u].view = ExecUpsert(TxView(u), tx[u].items[tx[u].i]),
                        ![u].count = @ + 1, ![u].i = @ + 1]
    /\ UNCHANGED <<table, upsertRet, nCalls, patchVars, histVars, calcVars>>

\* loop body, stmt.ExecContext fails: return 0, err; the deferred Rollback runs
UpsertExecFail(u) ==
    /\ tx[u].pc = "loop"
    /\ tx[u].i <= Len(tx[u].items)
    /\ ~Skipped(tx[u].items[tx[u].i])
    /\ dbLock' = IF dbLock = u THEN "free" ELSE dbLock
    /\ tx' = [tx EXCEPT ![u] = IdleTx]
    /\ upsertRet' = [upsertRet EXCEPT ![u] = [count |-> 0, err |-> "storage"]]
    /\ UNCHANGED <<table, nCalls, patchVars, histVars, calcVars>>

\* a sync that mirrors the fetch: rows the batch did not write are dropped
UpsertCommitMirror(u) ==
    /\ tx[u].pc = "loop"
    /\ tx[u].i > Len(tx[u].items)
    /\ table' = [id \in WrittenIdents(tx[u].items) |-> TxView(u)[id]]
    /\ dbLock' = IF dbLock = u THEN "free" ELSE dbLock
    /\ tx' = [tx EXCEPT ![u] = IdleTx]
    /\ upsertRet' = [upsertRet EXCEPT ![u] = [count |-> tx[u].count, err |-> "nil"]]
    /\ lastValid' = Record(lastValid, tx[u].items, TRUE)
    /\ resynced' = resynced
    /\ UNCHANGED <<nCalls, patchVars, calcVars>>

\* tx.Commit succeeds: return count, nil
UpsertCommit(u) ==
    /\ tx[u].pc = "loop"
    /\ tx[u].i > Len(tx[u].items)
    /\ table' = TxView(u)
    /\ dbLock' = IF dbLock = u THEN "free" ELSE dbLock
    /\ tx' = [tx EXCEPT ![u] = IdleTx]
    /\ upsertRet' = [upsertRet EXCEPT ![u] = [count |-> tx[u].count, err |-> "nil"]]
    /\ lastValid' = Record(lastValid, tx[u].items, TRUE)
    /\ resynced' = (resynced \/ \E id \in WrittenIdents(tx[u].items) \cap DOMAIN lastPatched :
                                    table'[id] # table[id])
    /\ UNCHANGED <<nCalls, patchVars, calcVars>>

\* tx.Commit fails: return 0, err; the deferred Rollback runs
UpsertCommitFail(u) ==
    /\ tx[u].pc = "loop"
    /\ tx[u].i > Len(tx[u].items)
    /\ dbLock' = IF dbLock = u THEN "free" ELSE dbLock
    /\ tx' = [tx EXCEPT ![u] = IdleTx]
    /\ upsertRet' = [upsertRet EXCEPT ![u] = [count |-> 0, err |-> "storage"]]
    /\ UNCHANGED <<table, nCalls, patchVars, histVars, calcVars>>

UpsertStep(u) ==
    \/ UpsertEmpty(u)
    \/ \E items \in Batches : UpsertBegin(u, items)
    \/ UpsertBeginFail(u)
    \/ UpsertSkip(u)
    \/ UpsertExec(u)
    \/ UpsertExecFail(u)
    \/ UpsertCommit(u)
    \/ UpsertCommitFail(u)

----------------------------------------------------------------------------
(* PatchCustom and the PATCH route *)

ZeroItem ==
    [Kind |-> "", RepoFullName |-> "", ExternalKey |-> "", Title |-> "", State |-> "",
     URL |-> "", Author |-> "", CreatedAt |-> "", UpdatedAt |-> "", Assignee |-> "",
     AssigneeGroup |-> "", Note |-> "", EstimatedAt |-> "", SyncInternal |-> FALSE,
     Priority |-> 0, DueAt |-> "", OverdueDays |-> 0]

\* row.Scan into an Item, then it.SyncInternal = syncInt != 0
ScanItem(id, r) ==
    [Kind |-> id[1], RepoFullName |-> id[2], ExternalKey |-> id[3], Title |-> r.title,
     State |-> r.state, URL |-> r.url, Author |-> r.author, CreatedAt |-> r.created_at,
     UpdatedAt |-> r.updated_at, Assignee |-> r.assignee,
     AssigneeGroup |-> r.assignee_group, Note |-> r.note,
     EstimatedAt |-> r.estimated_resolve_at, SyncInternal |-> (r.sync_internal # 0),
     Priority |-> r.priority, DueAt |-> r.due_at, OverdueDays |-> 0]

boolToInt(b) == IF b THEN 1 ELSE 0

\* A CustomPatch is a record of its non-nil fields (a nil pointer is an absent field).
PatchFields == {"Assignee", "AssigneeGroup", "Note", "EstimatedResolveAt",
                "SyncInternal", "Priority", "DueAt"}

CustomPatches ==
    { [Priority |-> 1],
      [Assignee |-> "alice"],
      [Note |-> "", SyncInternal |-> TRUE, DueAt |-> "2024-01-03T12:00:00Z"],
      [Assignee |-> "bob", AssigneeGroup |-> "core", Note |-> "wip",
       EstimatedResolveAt |-> "2024-01-02", SyncInternal |-> TRUE, Priority |-> 7,
       DueAt |-> "2024-01-02"],
      [Assignee |-> "", SyncInternal |-> FALSE, DueAt |-> ""] }

Has(p, f) == f \in DOMAIN p

\* a patch whose absent fields arrive as zero values instead of nil
MergePatchZeroed(it, p) ==
    [it EXCEPT !.Assignee = IF Has(p, "Assignee") THEN p.Assignee ELSE "",
               !.AssigneeGroup = IF Has(p, "AssigneeGroup") THEN p.AssigneeGroup ELSE "",
               !.Note = IF Has(p, "Note") THEN p.Note ELSE "",
               !.EstimatedAt = IF Has(p, "EstimatedResolveAt") THEN p.EstimatedResolveAt ELSE "",
               !.SyncInternal = IF Has(p, "SyncInternal") THEN p.SyncInternal ELSE FALSE,
               !.Priority = IF Has(p, "Priority") THEN p.Priority ELSE 0,
               !.DueAt = IF Has(p, "DueAt") THEN p.DueAt ELSE ""]

\* a merge that takes an empty string for an absent field
MergePatchKeepEmpty(it, p) ==
    [it EXCEPT !.Assignee = IF Has(p, "Assignee") /\ p.Assignee # "" THEN p.Assignee ELSE @,
               !.AssigneeGroup = IF Has(p, "AssigneeGroup") /\ p.AssigneeGroup # ""
                                 THEN p.AssigneeGroup ELSE @,
               !.Note = IF Has(p, "Note") /\ p.Note # "" THEN p.Note ELSE @,
               !.EstimatedAt = IF Has(p, "EstimatedResolveAt") /\ p.EstimatedResolveAt # ""
                               THEN p.EstimatedResolveAt ELSE @,
               !.SyncInternal = IF Has(p, "SyncInternal") THEN p.SyncInternal ELSE @,
               !.Priority = IF Has(p, "Priority") THEN p.Priority ELSE @,
               !.DueAt = IF Has(p, "DueAt") /\ p.DueAt # "" THEN p.DueAt ELSE @]

\* the seven "if p.F != nil { it.F = *p.F }" statements
MergePatch(it, p) ==
    [it EXCEPT !.Assignee = IF Has(p, "Assignee") THEN p.Assignee ELSE @,
               !.AssigneeGroup = IF Has(p, "AssigneeGroup") THEN p.AssigneeGroup ELSE @,
               !.Note = IF Has(p, "Note") THEN p.Note ELSE @,
               !.EstimatedAt = IF Has(p, "EstimatedResolveAt") THEN p.EstimatedResolveAt ELSE @,
               !.SyncInternal = IF Has(p, "SyncInternal") THEN p.SyncInternal ELSE @,
               !.Priority = IF Has(p, "Priority") THEN p.Priority ELSE @,
               !.DueAt = IF Has(p, "DueAt") THEN p.DueAt ELSE @]

\* the overlay columns the UPDATE statement binds from it
OverlayOf(it) ==
    [assignee |-> it.Assignee, assignee_group |-> it.AssigneeGroup, note |-> it.Note,
     estimated_resolve_at |-> it.EstimatedAt, sync_internal |-> boolToInt(it.SyncInternal),
     priority |-> it.Priority, due_at |-> it.DueAt]

\* UPDATE items SET <overlay columns> WHERE kind=? AND repo_full_name=? AND external_key=?
UpdateOverlay(t, it) ==
    LET id == IdentOf(it)
    IN  IF id \in DOMAIN t
        THEN [t EXCEPT ![id] = [c \in ExternalCols \cup OverlayCols |->
                                   IF c \in OverlayCols THEN OverlayOf(it)[c] ELSE t[id][c]]]
        ELSE t

\* the status the PATCH route writes for the error PatchCustom returned
StatusAlways500(err) == IF err = "nil" THEN 200 ELSE 500

StatusOf(err) ==
    CASE err = "nil" -> 200
      [] err = "not found" -> 404
      [] OTHER -> 500

\* an identity no fetch delivers
Issue99 == <<"issue", "openeuler/yuanrong", "99">>
PatchTargets == Idents \cup {Issue99}

\* instants at which a patch response is computed
PatchInstants == {30, 130}

IdlePatch == [pc |-> "idle", id |-> Issue99, p |-> [Priority |-> 1],
              before |-> ZeroItem, it |-> ZeroItem]

Response(err, item, at) == [status |-> StatusOf(err), err |-> err, item |-> item, at |-> at]

upsertVars == <<tx, upsertRet>>

\* the request body does not decode: 400, PatchCustom is not called
PatchBadJSON(p) ==
    /\ patch[p].pc = "idle"
    /\ nCalls < MaxCalls
    /\ nCalls' = nCalls + 1
    /\ patchRet' = [patchRet EXCEPT ![p] = [status |-> 400, err |-> "invalid json",
                                            item |-> ZeroItem, at |-> 0]]
    /\ UNCHANGED <<table, dbLock, patch, lastPatched, upsertVars, histVars, calcVars>>

\* the SELECT finds no row: errNotFound
PatchNotFound(p, id) ==
    /\ patch[p].pc = "idle"
    /\ nCalls < MaxCalls
    /\ id \notin DOMAIN table
    /\ nCalls' = nCalls + 1
    /\ patchRet' = [patchRet EXCEPT ![p] = Response("not found", ZeroItem, 0)]
    /\ UNCHANGED <<table, dbLock, patch, lastPatched, upsertVars, histVars, calcVars>>

\* the SELECT fails with another error
PatchSelectFail(p) ==
    /\ patch[p].pc = "idle"
    /\ nCalls < MaxCalls
    /\ nCalls' = nCalls + 1
    /\ patchRet' = [patchRet EXCEPT ![p] = Response("storage", ZeroItem, 0)]
    /\ UNCHANGED <<table, dbLock, patch, lastPatched, upsertVars, histVars, calcVars>>

\* the SELECT returns the row; the present fields of the patch are applied to it
PatchSelect(p, id, cp) ==
    /\ patch[p].pc = "idle"
    /\ nCalls < MaxCalls
    /\ id \in DOMAIN table
    /\ nCalls' = nCalls + 1
    /\ patch' = [patch EXCEPT ![p] = [pc |-> "update", id |-> id, p |-> cp,
                                      before |-> ScanItem(id, table[id]),
                                      it |-> MergePatch(ScanItem(id, table[id]), cp)]]
    /\ patchRet' = [patchRet EXCEPT ![p] = [status |-> 0, err |-> "pending",
                                            item |-> ZeroItem, at |-> 0]]
    /\ UNCHANGED <<table, dbLock, lastPatched, upsertVars, histVars, calcVars>>

\* the UPDATE succeeds; the merged record is returned with its overdue days
PatchUpdate(p, now) ==
    /\ patch[p].pc = "update"
    /\ dbLock = "free"
    /\ table' = UpdateOverlay(table, patch[p].it)
    /\ lastPatched' = Put(lastPatched, patch[p].id, OverlayOf(patch[p].it))
    /\ resynced' = FALSE
    /\ patchRet' = [patchRet EXCEPT ![p] =
           Response("nil",
                    [patch[p].it EXCEPT !.OverdueDays = computeOverdueDays(patch[p].it.DueAt, now)],
                    now)]
    /\ patch' = [patch EXCEPT ![p] = IdlePatch]
    /\ UNCHANGED <<dbLock, nCalls, upsertVars, lastValid, calcVars>>

\* the UPDATE fails (the database is locked by a writer, or another error)
PatchUpdateFail(p) ==
    /\ patch[p].pc = "update"
    /\ patchRet' = [patchRet EXCEPT ![p] = Response("storage", ZeroItem, 0)]
    /\ patch' = [patch EXCEPT ![p] = IdlePatch]
    /\ UNCHANGED <<table, dbLock, nCalls, lastPatched, upsertVars, histVars, calcVars>>

PatchStep(p) ==
    \/ PatchBadJSON(p)
    \/ \E id \in PatchTargets : PatchNotFound(p, id)
    \/ PatchSelectFail(p)
    \/ \E id \in PatchTargets, cp \in CustomPatches : PatchSelect(p, id, cp)
    \/ \E now \in PatchInstants : PatchUpdate(p, now)
    \/ PatchUpdateFail(p)

----------------------------------------------------------------------------
(* Overdue derivation on one row, as ListItems and PatchCustom apply it *)

OverdueInputs ==
    [dueAt : DueStrings, createdAt : CreatedStrings, now : 0..MaxNow]

\* ListItems: it.OverdueDays = computeOverdueDays(it.DueAt)
ListRowOverdue ==
    /\ ov.by = "none"
    /\ ov' = [ov EXCEPT !.by = "list", !.days = computeOverdueDays(ov.dueAt, ov.now)]
    /\ UNCHANGED <<storeVars, alg, listRet, com, remoteVars>>

\* PatchCustom: it.OverdueDays = computeOverdueDays(it.DueAt)
PatchRowOverdue ==
    /\ ov.by = "none"
    /\ ov' = [ov EXCEPT !.by = "patch", !.days = computeOverdueDays(ov.dueAt, ov.now)]
    /\ UNCHANGED <<storeVars, alg, listRet, com, remoteVars>>

----------------------------------------------------------------------------
(* UpsertCore and PatchCustom as whole calls, one after the other *)

\* PatchCustom(id, cp) run to its end without a failure: the table it leaves
PatchTable(t, id, cp) ==
    IF id \in DOMAIN t THEN UpdateOverlay(t, MergePatch(ScanItem(id, t[id]), cp)) ELSE t

\* tables that one batch, or one batch and one patch, leave
StartTables ==
    {UpsertTable(EmptyTable, items) : items \in Batches}
    \cup {PatchTable(UpsertTable(EmptyTable, items), Issue1, cp) :
             items \in Batches, cp \in CustomPatches}

\* UpsertCore(alg.items) run to its commit
UpsertCoreAll ==
    /\ alg.applied < 2
    /\ table' = UpsertTable(table, alg.items)
    /\ alg' = [alg EXCEPT !.applied = @ + 1,
                          !.once = IF alg.applied = 0 THEN UpsertTable(table, alg.items) ELSE @]
    /\ UNCHANGED <<dbLock, tx, upsertRet, patch, patchRet, nCalls, lastPatched, lastValid,
                   resynced, ov, listRet, com, remoteVars>>

\* UpsertCore(com.a) then UpsertCore(com.b), and the two calls in the other
\* order, each run to its commit on the table as it stands
UpsertBothOrders ==
    /\ ~com.done
    /\ com' = [com EXCEPT !.done = TRUE,
                          !.ab = UpsertTable(UpsertTable(table, com.a), com.b),
                          !.ba = UpsertTable(UpsertTable(table, com.b), com.a)]
    /\ table' = UpsertTable(UpsertTable(table, com.a), com.b)
    /\ UNCHANGED <<dbLock, tx, upsertRet, patch, patchRet, nCalls, lastPatched, lastValid,
                   resynced, ov, alg, listRet, remoteVars>>

\* records with one empty field each, next to the records a fetch delivers
WideCoreItems ==
    CoreItems \cup
    { CoreItem(<<"issue", "openeuler/yuanrong", "">>, "no number", "open",
               "2024-01-01T00:00:00Z", "2024-01-01T00:00:00Z"),
      CoreItem(<<"issue", "", "1">>, "no repository", "open",
               "2024-01-01T00:00:00Z", "2024-01-01T00:00:00Z"),
      CoreItem(<<"", "openeuler/yuanrong", "1">>, "no kind", "open",
               "2024-01-01T00:00:00Z", "2024-01-01T00:00:00Z") }

WideBatches == UNION { [1..n -> WideCoreItems] : n \in 1..MaxBatchLen }

----------------------------------------------------------------------------
(* ListItems and the GET /api/items route *)

Kernel7 == <<"issue", "openeuler/kernel", "7">>

\* the records of the two repositories
ListCoreItems ==
    CoreItems \cup {CoreItem(Kernel7, "oops", "open", "2024-01-01T00:00:00Z", "2024-01-02T12:00:00Z")}

\* patches that set the due date, and one that leaves it absent
ListPatches ==
    { [DueAt |-> "2024-01-05"], [DueAt |-> "2024-01-10"], [DueAt |-> "2024-01-03T12:00:00Z"],
      [Priority |-> 2] }

\* tables left by one sync of both repositories and one patch per row
ListTables ==
    { PatchTable(PatchTable(PatchTable(UpsertTable(EmptyTable, items), Issue1, c1), Pull1, c2),
                 Kernel7, c3) :
          items \in [1..3 -> ListCoreItems], c1 \in ListPatches, c2 \in ListPatches,
          c3 \in ListPatches }

\* the query parameters kind and repo; "" is an absent parameter
ListFilters ==
    [Kind : {"", "issue", "pr"}, RepoFullName : {"", "openeuler/yuanrong", "openeuler/kernel"}]

\* instants at which a listing is computed
ListInstants == {40, 340}

\* a WHERE clause that tests the kind only
ListWhereKindOnly(f, id) == f.Kind # "" => id[1] = f.Kind

\* WHERE 1=1 [AND kind = ?] [AND repo_full_name = ?]
ListWhere(f, id) ==
    /\ f.Kind # "" => id[1] = f.Kind
    /\ f.RepoFullName # "" => id[2] = f.RepoFullName

\* ORDER BY due_at DESC, updated_at ASC
OrderedBeforeAsc(a, b) ==
    \/ TextRank(a.due_at) > TextRank(b.due_at)
    \/ TextRank(a.due_at) = TextRank(b.due_at) /\ TextRank(a.updated_at) <= TextRank(b.updated_at)

\* ORDER BY due_at DESC, updated_at DESC: row a may be returned before row b
OrderedBefore(a, b) ==
    \/ TextRank(a.due_at) > TextRank(b.due_at)
    \/ TextRank(a.due_at) = TextRank(b.due_at) /\ TextRank(a.updated_at) >= TextRank(b.updated_at)

\* the sequences that enumerate the set S once each
Orderings(S) ==
    {s \in [1..Cardinality(S) -> S] : \A i, j \in 1..Cardinality(S) : s[i] = s[j] => i = j}

\* the row orders the query can return on table t: rows equal in both sort
\* keys come in an order the statement does not fix
ListOrders(t, f) ==
    {s \in Orderings({id \in DOMAIN t : ListWhere(f, id)}) :
        \A i, j \in 1..Len(s) : i < j => OrderedBefore(t[s[i]], t[s[j]])}

\* the query succeeds: each row is scanned and its overdue days derived
ListItems(f, now) ==
    /\ \E s \in ListOrders(table, f) :
          listRet' = [status |-> 200, f |-> f, at |-> now,
                      items |-> [i \in 1..Len(s) |->
                                   [ScanItem(s[i], table[s[i]]) EXCEPT
                                       !.OverdueDays = computeOverdueDays(table[s[i]].due_at, now)]]]
    /\ UNCHANGED <<storeVars, ov, alg, com, remoteVars>>

\* QueryContext, Scan or rows.Err fails: the route answers 500
ListItemsFail(f) ==
    /\ listRet' = [status |-> 500, f |-> f, at |-> 0, items |-> <<>>]
    /\ UNCHANGED <<storeVars, ov, alg, com, remoteVars>>

----------------------------------------------------------------------------
(* getList: normalization of one fetched page, and its way into the table *)

\* decoded JSON values: a string, a number, an object, or anything else
Str(s) == [t |-> "string", s |-> s]
Num(n) == [t |-> "number", n |-> n]
Obj(m) == [t |-> "object", m |-> m]
Null == [t |-> "null"]

anyToString(v) ==
    CASE v.t = "string" -> v.s
      [] v.t = "number" -> ToString(v.n)
      [] OTHER -> ""

\* a lookup that returns the first key present, empty or not
RECURSIVE firstPresent(_, _)
firstPresent(m, keys) ==
    IF keys = <<>> THEN ""
    ELSE IF Head(keys) \in DOMAIN m THEN anyToString(m[Head(keys)])
    ELSE firstPresent(m, Tail(keys))

\* the first key of keys that m holds with a non-empty string form
RECURSIVE firstString(_, _)
firstString(m, keys) ==
    IF keys = <<>> THEN ""
    ELSE IF Head(keys) \in DOMAIN m /\ anyToString(m[Head(keys)]) # ""
         THEN anyToString(m[Head(keys)])
         ELSE firstString(m, Tail(keys))

\* the raw records a page can hold: the three naming conventions of the
\* identity, two records without a usable identity, one without a title
RawRecords ==
    { [number |-> Num(1), title |-> Str("crash"), state |-> Str("open"),
       html_url |-> Str("https://gitcode.com/x"), user |-> Obj([login |-> Str("ann")]),
       created_at |-> Str("2024-01-01T00:00:00Z"), updated_at |-> Str("2024-01-01T00:00:00Z")],
      [iid |-> Str("2"), id |-> Num(77), title |-> Str("fix crash"), state |-> Str("open"),
       web_url |-> Str("https://gitcode.com/x"),
       user |-> Str("ann"), author |-> Obj([username |-> Str("ann")]),
       createdAt |-> Str("2024-01-02T12:00:00Z"), updatedAt |-> Str("2024-01-02T12:00:00Z")],
      [number |-> Str(""), id |-> Num(3), title |-> Str("oops"), state |-> Str("open"),
       url |-> Str("https://gitcode.com/x"), author |-> Str("ann"),
       created_at |-> Str("2024-01-01T00:00:00Z"), updated_at |-> Str("2024-01-02T12:00:00Z")],
      [title |-> Str("no identity"), state |-> Str("open")],
      [number |-> Null, title |-> Str("null identity"), state |-> Str("open")],
      [number |-> Num(4), title |-> Str(""), state |-> Str("open")] }

RawPages == UNION { [1..n -> RawRecords] : n \in 0..MaxPageLen }

\* the author: user.login|username|name, then the same of author, then the
\* author field as a string
AuthorOf(m) ==
    LET inUser == IF "user" \in DOMAIN m /\ m["user"].t = "object"
                  THEN firstString(m["user"].m, <<"login", "username", "name">>) ELSE ""
        inAuthor == IF "author" \in DOMAIN m /\ m["author"].t = "object"
                    THEN firstString(m["author"].m, <<"login", "username", "name">>) ELSE ""
    IN  IF inUser # "" THEN inUser
        ELSE IF inAuthor # "" THEN inAuthor
        ELSE firstString(m, <<"author">>)

\* a normalization that probes the identity fields in the order id, iid, number
RemoteItemIdFirst(m) ==
    [Key |-> firstString(m, <<"id", "iid", "number">>),
     Title |-> firstString(m, <<"title">>),
     State |-> firstString(m, <<"state">>),
     URL |-> firstString(m, <<"html_url", "web_url", "url">>),
     Author |-> AuthorOf(m),
     CreatedAt |-> firstString(m, <<"created_at", "createdAt">>),
     UpdatedAt |-> firstString(m, <<"updated_at", "updatedAt">>)]

\* the RemoteItem of a raw record
RemoteItem(m) ==
    [Key |-> firstString(m, <<"number", "iid", "id">>),
     Title |-> firstString(m, <<"title">>),
     State |-> firstString(m, <<"state">>),
     URL |-> firstString(m, <<"html_url", "web_url", "url">>),
     Author |-> AuthorOf(m),
     CreatedAt |-> firstString(m, <<"created_at", "createdAt">>),
     UpdatedAt |-> firstString(m, <<"updated_at", "updatedAt">>)]

\* the loop of getList: records without a key are left out
RECURSIVE Normalize(_)
Normalize(raw) ==
    IF raw = <<>> THEN <<>>
    ELSE IF RemoteItem(Head(raw)).Key = "" THEN Normalize(Tail(raw))
    ELSE <<RemoteItem(Head(raw))>> \o Normalize(Tail(raw))

\* the CoreItem the sync route builds from a RemoteItem
CoreOf(kind, repoFullName, it) ==
    [Kind |-> kind, RepoFullName |-> repoFullName, ExternalKey |-> it.Key,
     Title |-> it.Title, State |-> it.State, URL |-> it.URL, Author |-> it.Author,
     CreatedAt |-> it.CreatedAt, UpdatedAt |-> it.UpdatedAt]

FetchRepo == "openeuler/yuanrong"

\* the response decodes: the page is normalized
GetList ==
    /\ fetch.pc = "raw"
    /\ fetch' = [fetch EXCEPT !.pc = "items", !.items = Normalize(fetch.raw)]
    /\ UNCHANGED <<storeVars, ov, alg, listRet, com, walk, sync, ui>>

\* the request fails, the status is not 2xx or the body does not decode
GetListFail(e) ==
    /\ fetch.pc = "raw"
    /\ fetch' = [fetch EXCEPT !.pc = "failed", !.err = e]
    /\ UNCHANGED <<storeVars, ov, alg, listRet, com, walk, sync, ui>>

\* the items of the page, as issues of the repository, go through UpsertCore
FetchUpsert ==
    /\ fetch.pc = "items"
    /\ LET core == [i \in 1..Len(fetch.items) |-> CoreOf("issue", FetchRepo, fetch.items[i])]
       IN  /\ table' = UpsertTable(table, core)
           /\ fetch' = [fetch EXCEPT !.pc = "done", !.count = Written(core)]
    /\ UNCHANGED <<dbLock, tx, upsertRet, patch, patchRet, nCalls, lastPatched, lastValid,
                   resynced, ov, alg, listRet, com, walk, sync, ui>>

\* UpsertCore returns an error: nothing is written
FetchUpsertFail ==
    /\ fetch.pc = "items"
    /\ fetch' = [fetch EXCEPT !.pc = "failed", !.err = "storage"]
    /\ UNCHANGED <<storeVars, ov, alg, listRet, com, walk, sync, ui>>

----------------------------------------------------------------------------
(* POST /api/sync *)

\* owner + "/" + repo for the configured repositories, in their order
SyncRepos == <<"openeuler/yuanrong", "openeuler/kernel">>

Kernel1 == <<"issue", "openeuler/kernel", "1">>

\* the raw records a listing of the remote can hold
SyncRaw ==
    { [number |-> Num(1), title |-> Str("crash"), state |-> Str("open")],
      [title |-> Str("no identity"), state |-> Str("open")],
      [number |-> Num(4), title |-> Str(""), state |-> Str("open")] }

\* what ListIssues or ListPulls received over its pages
SyncListings == UNION { [1..n -> SyncRaw] : n \in 0..MaxBatchLen }

\* the table before the request: empty, or with a row in each repository
SyncStartTables ==
    { EmptyTable,
      UpsertTable(EmptyTable,
                  << CoreItem(Issue1, "crash on start", "closed", "2024-01-01T00:00:00Z",
                              "2024-01-02T12:00:00Z"),
                     CoreItem(Kernel1, "oops", "open", "2024-01-01T00:00:00Z",
                              "2024-01-02T12:00:00Z") >>) }

SyncResponse(status, body) == [status |-> status, body |-> body]

\* a route that goes on without a token
SyncNoTokenCheck ==
    /\ sync.pc = "start"
    /\ ~sync.token
    /\ sync' = [sync EXCEPT !.pc = "issues", !.idx = 1]
    /\ UNCHANGED <<storeVars, ov, alg, listRet, com, walk, fetch, ui>>

\* token == "": 400, return
SyncReject ==
    /\ sync.pc = "start"
    /\ ~sync.token
    /\ sync' = [sync EXCEPT !.pc = "done",
                            !.resp = SyncResponse(400, [error |-> "missing GITCODE_TOKEN"])]
    /\ UNCHANGED <<storeVars, ov, alg, listRet, com, walk, fetch, ui>>

\* the client is created and the loop over the repositories entered
SyncBegin ==
    /\ sync.pc = "start"
    /\ sync.token
    /\ sync' = [sync EXCEPT !.pc = "issues", !.idx = 1]
    /\ UNCHANGED <<storeVars, ov, alg, listRet, com, walk, fetch, ui>>

\* client.ListIssues returns the normalized items of what it received
FetchIssues(raw) ==
    /\ sync.pc = "issues"
    /\ sync.idx <= Len(SyncRepos)
    /\ sync' = [sync EXCEPT !.pc = "pulls", !.issues = Normalize(raw),
                            !.calls = Append(@, <<sync.idx, "issues">>),
                            !.received = @ + Len(raw)]
    /\ UNCHANGED <<storeVars, ov, alg, listRet, com, walk, fetch, ui>>

\* a route that leaves the failing repository out and goes on with the next
FetchIssuesFailSkipRepo(e) ==
    /\ sync.pc = "issues"
    /\ sync.idx <= Len(SyncRepos)
    /\ sync' = [sync EXCEPT !.idx = @ + 1, !.failed = sync.idx,
                            !.calls = Append(@, <<sync.idx, "issues">>)]
    /\ UNCHANGED <<storeVars, ov, alg, listRet, com, walk, fetch, ui>>

\* client.ListIssues returns an error: 502, return
FetchIssuesFail(e) ==
    /\ sync.pc = "issues"
    /\ sync.idx <= Len(SyncRepos)
    /\ sync' = [sync EXCEPT !.pc = "done", !.failed = sync.idx,
                            !.calls = Append(@, <<sync.idx, "issues">>),
                            !.resp = SyncResponse(502, [error |-> e])]
    /\ UNCHANGED <<storeVars, ov, alg, listRet, com, walk, fetch, ui>>

\* client.ListPulls returns its items: core is built, totalFetched += len(core)
FetchPulls(raw) ==
    /\ sync.pc = "pulls"
    /\ LET prs == Normalize(raw)
           repo == SyncRepos[sync.idx]
           core == [i \in 1..Len(sync.issues) |-> CoreOf("issue", repo, sync.issues[i])]
                   \o [i \in 1..Len(prs) |-> CoreOf("pr", repo, prs[i])]
       IN  sync' = [sync EXCEPT !.pc = "upsert", !.core = core, !.issues = <<>>,
                                !.calls = Append(@, <<sync.idx, "pulls">>),
                                !.received = @ + Len(raw),
                                !.fetched = @ + Len(core)]
    /\ UNCHANGED <<storeVars, ov, alg, listRet, com, walk, fetch, ui>>

\* a route that stores the issues it holds before it reports the failed fetch
FetchPullsFailKeepIssues(e) ==
    /\ sync.pc = "pulls"
    /\ table' = UpsertTable(table, [i \in 1..Len(sync.issues) |->
                                      CoreOf("issue", SyncRepos[sync.idx], sync.issues[i])])
    /\ sync' = [sync EXCEPT !.pc = "done", !.failed = sync.idx,
                            !.calls = Append(@, <<sync.idx, "pulls">>),
                            !.resp = SyncResponse(502, [error |-> e])]
    /\ UNCHANGED <<dbLock, tx, upsertRet, patch, patchRet, nCalls, lastPatched, lastValid,
                   resynced, ov, alg, listRet, com, walk, fetch, ui>>

\* client.ListPulls returns an error: 502, return
FetchPullsFail(e) ==
    /\ sync.pc = "pulls"
    /\ sync' = [sync EXCEPT !.pc = "done", !.failed = sync.idx,
                            !.calls = Append(@, <<sync.idx, "pulls">>),
                            !.resp = SyncResponse(502, [error |-> e])]
    /\ UNCHANGED <<storeVars, ov, alg, listRet, com, walk, fetch, ui>>

\* the records of core that have no title
Untitled(core) == {i \in 1..Len(core) : core[i].Title = ""}

\* a route that adds the length of core to totalUpserted
SyncUpsertCountAll ==
    /\ sync.pc = "upsert"
    /\ table' = UpsertTable(table, sync.core)
    /\ sync' = [sync EXCEPT !.pc = "issues", !.idx = @ + 1, !.core = <<>>,
                            !.upserted = @ + Len(sync.core),
                            !.skipped = @ + Cardinality(Untitled(sync.core)),
                            !.committed = UpsertTable(table, sync.core)]
    /\ UNCHANGED <<dbLock, tx, upsertRet, patch, patchRet, nCalls, lastPatched, lastValid,
                   resynced, ov, alg, listRet, com, walk, fetch, ui>>

\* UpsertCore(core) commits: totalUpserted += up; next repository
SyncUpsert ==
    /\ sync.pc = "upsert"
    /\ table' = UpsertTable(table, sync.core)
    /\ sync' = [sync EXCEPT !.pc = "issues", !.idx = @ + 1, !.core = <<>>,
                            !.upserted = @ + Written(sync.core),
                            !.skipped = @ + Cardinality(Untitled(sync.core)),
                            !.committed = UpsertTable(table, sync.core)]
    /\ UNCHANGED <<dbLock, tx, upsertRet, patch, patchRet, nCalls, lastPatched, lastValid,
                   resynced, ov, alg, listRet, com, walk, fetch, ui>>

\* a route that drops the error of UpsertCore and goes on
SyncUpsertFailIgnored ==
    /\ sync.pc = "upsert"
    /\ sync' = [sync EXCEPT !.pc = "issues", !.idx = @ + 1, !.core = <<>>,
                            !.failed = sync.idx]
    /\ UNCHANGED <<storeVars, ov, alg, listRet, com, walk, fetch, ui>>

\* UpsertCore(core) returns an error: 500, return
SyncUpsertFail ==
    /\ sync.pc = "upsert"
    /\ sync' = [sync EXCEPT !.pc = "done", !.failed = sync.idx, !.core = <<>>,
                            !.resp = SyncResponse(500, [error |-> "storage"])]
    /\ UNCHANGED <<storeVars, ov, alg, listRet, com, walk, fetch, ui>>

\* the loop over the repositories has ended: 200 with the two totals
SyncFinish ==
    /\ sync.pc = "issues"
    /\ sync.idx > Len(SyncRepos)
    /\ sync' = [sync EXCEPT !.pc = "done",
                            !.resp = SyncResponse(200, [fetched |-> sync.fetched,
                                                        upserted |-> sync.upserted])]
    /\ UNCHANGED <<storeVars, ov, alg, listRet, com, walk, fetch, ui>>

----------------------------------------------------------------------------
(* The save paths of the web UI *)

\* a string field of a draft or a payload: a text (sequence of words) or undefined
Defined(t) == [def |-> TRUE, text |-> t]
Undefined == [def |-> FALSE, text |-> <<>>]

BlankWords == {" ", "\n"}

\* String.prototype.trim on a text
RECURSIVE TrimLeft(_)
TrimLeft(t) == IF t # <<>> /\ Head(t) \in BlankWords THEN TrimLeft(Tail(t)) ELSE t

RECURSIVE TrimRight(_)
TrimRight(t) ==
    IF t # <<>> /\ t[Len(t)] \in BlankWords THEN TrimRight(SubSeq(t, 1, Len(t) - 1)) ELSE t

Trim(t) == TrimRight(TrimLeft(t))

\* x?.trim() || undefined
TrimOrUndefined(x) == IF x.def /\ Trim(x.text) # <<>> THEN Defined(Trim(x.text)) ELSE Undefined

\* !x?.trim(): undefined, empty or only white space
Blank(x) == ~x.def \/ Trim(x.text) = <<>>

\* the tag written before the reason (the source's literal is in Chinese)
ReasonTag == "[reason] "

SavePaths == {"board", "repo", "app"}

DraftNotes == {<<>>, <<"wip">>}
DraftReasons == {Undefined, Defined(<<>>), Defined(<<" ">>), Defined(<<"dup">>)}

\* the drafts of RepositoryBoard (Editable with unsyncedReason) and of the
\* pages whose Editable has no such field
Drafts(path) ==
    { [note |-> Defined(n), syncInternal |-> b, unsyncedReason |-> r] :
        n \in DraftNotes, b \in BOOLEAN,
        r \in IF path = "board" THEN DraftReasons ELSE {Undefined} }

\* noteForPatch of RepositoryBoard.save
NoteForPatch(draft) ==
    IF draft.syncInternal \/ ~draft.unsyncedReason.def \/ draft.unsyncedReason.text = <<>>
    THEN draft.note
    ELSE Defined((IF draft.note.text # <<>> THEN draft.note.text \o <<"\n">> ELSE <<>>)
                 \o <<ReasonTag>> \o draft.unsyncedReason.text)

\* payload of RepositoryBoard.save (note and syncInternal)
BoardPayload(draft) ==
    [note |-> TrimOrUndefined(NoteForPatch(draft)), syncInternal |-> draft.syncInternal]

\* RepoPage.save and App.save send the draft
DraftPayload(draft) == [note |-> draft.note, syncInternal |-> draft.syncInternal]

NoRequest == [note |-> Undefined, syncInternal |-> FALSE, made |-> FALSE]
Request(payload) == [note |-> payload.note, syncInternal |-> payload.syncInternal, made |-> TRUE]

\* the overlay the server holds after a patch: an absent field is left as it was
StoredAfter(stored, payload) ==
    [note |-> IF payload.note.def THEN payload.note.text ELSE stored.note,
     syncInternal |-> payload.syncInternal]

UIUnchanged == UNCHANGED <<storeVars, ov, alg, listRet, com, walk, fetch, sync>>

\* RepositoryBoard.save: syncInternal is off and the reason is blank
BoardSaveReject ==
    /\ ui.pc = "edit" /\ ui.path = "board"
    /\ ~ui.draft.syncInternal /\ Blank(ui.draft.unsyncedReason)
    /\ ui' = [ui EXCEPT !.pc = "done", !.formError = "reason required"]
    /\ UIUnchanged

\* RepositoryBoard.save: the payload is built and patchItem called
BoardSaveSend ==
    /\ ui.pc = "edit" /\ ui.path = "board"
    /\ ~(~ui.draft.syncInternal /\ Blank(ui.draft.unsyncedReason))
    /\ ui' = [ui EXCEPT !.pc = "patching", !.saving = TRUE,
                        !.sent = Request(BoardPayload(ui.draft))]
    /\ UIUnchanged

\* RepositoryBoard.save after patchItem resolved
BoardPatchOk ==
    /\ ui.pc = "patching" /\ ui.path = "board"
    /\ ui' = [ui EXCEPT !.pc = "done", !.stored = StoredAfter(@, ui.sent),
                        !.list = StoredAfter(ui.stored, ui.sent), !.saves = @ + 1,
                        !.first = IF ui.saves = 0
                                  THEN [note |-> StoredAfter(ui.stored, ui.sent).note,
                                        reason |-> ui.draft.unsyncedReason]
                                  ELSE @,
                        !.published = TRUE, !.hasDraft = FALSE, !.formError = "none",
                        !.notify = IF ui.sent.syncInternal THEN "pending" ELSE "none",
                        !.saving = FALSE]
    /\ UIUnchanged

\* RepositoryBoard.save after patchItem threw: finally, and the error leaves save
BoardPatchFail ==
    /\ ui.pc = "patching" /\ ui.path = "board"
    /\ ui' = [ui EXCEPT !.pc = "done", !.saving = FALSE, !.thrown = TRUE]
    /\ UIUnchanged

\* RepoPage.save: patchItem called with the draft
RepoPageSaveSend ==
    /\ ui.pc = "edit" /\ ui.path = "repo"
    /\ ui' = [ui EXCEPT !.pc = "patching", !.saving = TRUE,
                        !.sent = Request(DraftPayload(ui.draft))]
    /\ UIUnchanged

RepoPagePatchOk ==
    /\ ui.pc = "patching" /\ ui.path = "repo"
    /\ ui' = [ui EXCEPT !.pc = "done", !.stored = StoredAfter(@, ui.sent),
                        !.list = StoredAfter(ui.stored, ui.sent), !.saves = @ + 1,
                        !.published = TRUE, !.hasDraft = FALSE, !.saving = FALSE]
    /\ UIUnchanged

RepoPagePatchFail ==
    /\ ui.pc = "patching" /\ ui.path = "repo"
    /\ ui' = [ui EXCEPT !.pc = "done", !.saving = FALSE, !.thrown = TRUE]
    /\ UIUnchanged

\* App.save: patchItem called with the draft
AppSaveSend ==
    /\ ui.pc = "edit" /\ ui.path = "app"
    /\ ui' = [ui EXCEPT !.pc = "patching", !.sent = Request(DraftPayload(ui.draft))]
    /\ UIUnchanged

AppPatchOk ==
    /\ ui.pc = "patching" /\ ui.path = "app"
    /\ ui' = [ui EXCEPT !.pc = "done", !.stored = StoredAfter(@, ui.sent),
                        !.list = StoredAfter(ui.stored, ui.sent), !.saves = @ + 1,
                        !.published = TRUE, !.hasDraft = FALSE]
    /\ UIUnchanged

AppPatchFail ==
    /\ ui.pc = "patching" /\ ui.path = "app"
    /\ ui' = [ui EXCEPT !.pc = "done", !.thrown = TRUE]
    /\ UIUnchanged

\* the row saved once with syncInternal off is opened again on the board:
\* getDraft builds the draft from the updated item, the same reason is typed in
BoardEditAgain ==
    /\ ui.pc = "done" /\ ui.path = "board"
    /\ ui.saves = 1 /\ ~ui.hasDraft
    /\ ~ui.list.syncInternal
    /\ ui' = [ui EXCEPT !.pc = "edit", !.hasDraft = TRUE,
                        !.draft = [note |-> Defined(ui.list.note),
                                   syncInternal |-> ui.list.syncInternal,
                                   unsyncedReason |-> ui.first.reason]]
    /\ UIUnchanged

\* App.refresh: fetchItems is called
RefreshStart ==
    /\ ui.refresh = "none"
    /\ ui.pc \in {"edit", "patching"}
    /\ ui' = [ui EXCEPT !.refresh = "sent"]
    /\ UIUnchanged

\* App.doSync: syncNow is called
DoSyncStart ==
    /\ ui.refresh = "none"
    /\ ui.pc \in {"edit", "patching"}
    /\ ui' = [ui EXCEPT !.refresh = "syncing"]
    /\ UIUnchanged

\* App.doSync: syncNow resolved (the sync writes no overlay column), refresh is called
DoSyncDone ==
    /\ ui.refresh = "syncing"
    /\ ui' = [ui EXCEPT !.refresh = "sent"]
    /\ UIUnchanged

\* the server answers GET /api/items with the rows it holds
RefreshRead ==
    /\ ui.refresh = "sent"
    /\ ui' = [ui EXCEPT !.refresh = "read", !.snapshot = ui.stored]
    /\ UIUnchanged

\* App.refresh after fetchItems resolved: setItems(data)
RefreshDone ==
    /\ ui.refresh = "read"
    /\ ui' = [ui EXCEPT !.refresh = "done", !.list = ui.snapshot]
    /\ UIUnchanged

\* App.refresh or App.doSync after a rejected request: setError, the list stays
RefreshFail ==
    /\ ui.refresh \in {"syncing", "sent", "read"}
    /\ ui' = [ui EXCEPT !.refresh = "failed"]
    /\ UIUnchanged

\* notifyInternalIssue: the fetch resolved
NotifyOk ==
    /\ ui.notify = "pending"
    /\ ui' = [ui EXCEPT !.notify = "ok"]
    /\ UIUnchanged

\* a notifyInternalIssue without its catch, awaited by save
NotifyFailSurfaced ==
    /\ ui.notify = "pending"
    /\ ui' = [ui EXCEPT !.notify = "failed", !.thrown = TRUE]
    /\ UIUnchanged

\* notifyInternalIssue: the fetch rejected, the catch swallows it
NotifyFail ==
    /\ ui.notify = "pending"
    /\ ui' = [ui EXCEPT !.notify = "failed"]
    /\ UIUnchanged

----------------------------------------------------------------------------
(* listPaged: the page walk of the remote client *)

\* the ways getList fails: c.http.Do, a non-2xx status, json.Unmarshal
PageErrors == {"network", "status", "decode"}

\* url.Parse fails: return nil, err; no request is made
WalkBadURL ==
    /\ walk.pc = "loop"
    /\ walk.page = 1
    /\ walk' = [walk EXCEPT !.pc = "failed", !.last = "url", !.out = <<>>, !.err = "url"]
    /\ UNCHANGED <<storeVars, ov, alg, listRet, com, fetch, sync, ui>>

\* getList returns items: they are appended (one item per page stands for the
\* page's items, named by the page it came from) and the next page is asked
PageItems ==
    /\ walk.pc = "loop"
    /\ walk.page <= PageCap
    /\ walk' = [walk EXCEPT !.requests = @ + 1, !.last = "items",
                            !.out = Append(@, walk.page), !.page = @ + 1]
    /\ UNCHANGED <<storeVars, ov, alg, listRet, com, fetch, sync, ui>>

\* a walk that skips an empty page and asks for the next one
PageEmptyContinue ==
    /\ walk.pc = "loop"
    /\ walk.page <= PageCap
    /\ walk' = [walk EXCEPT !.requests = @ + 1, !.last = "empty", !.page = @ + 1]
    /\ UNCHANGED <<storeVars, ov, alg, listRet, com, fetch, sync, ui>>

\* getList returns zero items: break; return out, nil
PageEmpty ==
    /\ walk.pc = "loop"
    /\ walk.page <= PageCap
    /\ walk' = [walk EXCEPT !.requests = @ + 1, !.last = "empty", !.pc = "done"]
    /\ UNCHANGED <<storeVars, ov, alg, listRet, com, fetch, sync, ui>>

\* a walk that returns the items of the earlier pages together with the error
PageFailPartial(e) ==
    /\ walk.pc = "loop"
    /\ walk.page <= PageCap
    /\ walk' = [walk EXCEPT !.requests = @ + 1, !.last = e, !.pc = "failed", !.err = e]
    /\ UNCHANGED <<storeVars, ov, alg, listRet, com, fetch, sync, ui>>

\* getList returns an error: return nil, err
PageFail(e) ==
    /\ walk.pc = "loop"
    /\ walk.page <= PageCap
    /\ walk' = [walk EXCEPT !.requests = @ + 1, !.last = e, !.pc = "failed",
                            !.out = <<>>, !.err = e]
    /\ UNCHANGED <<storeVars, ov, alg, listRet, com, fetch, sync, ui>>

\* page > 50: the loop ends; return out, nil
WalkCapped ==
    /\ walk.pc = "loop"
    /\ walk.page > PageCap
    /\ walk' = [walk EXCEPT !.pc = "done"]
    /\ UNCHANGED <<storeVars, ov, alg, listRet, com, fetch, sync, ui>>

\* the raw records the remote holds on the page the walk asks for
RemotePageOf(page) == IF page <= Len(walk.remote) THEN walk.remote[page] ELSE <<>>

\* getList returns the normalized items of the page, at least one: append, next page
RemotePage ==
    /\ walk.pc = "loop"
    /\ walk.page <= PageCap
    /\ Normalize(RemotePageOf(walk.page)) # <<>>
    /\ walk' = [walk EXCEPT !.requests = @ + 1, !.last = "items",
                            !.out = @ \o Normalize(RemotePageOf(walk.page)), !.page = @ + 1]
    /\ UNCHANGED <<storeVars, ov, alg, listRet, com, fetch, sync, ui>>

\* getList returns no item for the page: len(items) == 0, break; return out, nil
RemotePageEmpty ==
    /\ walk.pc = "loop"
    /\ walk.page <= PageCap
    /\ Normalize(RemotePageOf(walk.page)) = <<>>
    /\ walk' = [walk EXCEPT !.requests = @ + 1, !.last = "empty", !.pc = "done"]
    /\ UNCHANGED <<storeVars, ov, alg, listRet, com, fetch, sync, ui>>

----------------------------------------------------------------------------
(* Specifications *)

InitCalls ==
    /\ dbLock = "free"
    /\ tx = [u \in UpsertProcs |-> IdleTx]
    /\ upsertRet = [u \in UpsertProcs |-> [count |-> 0, err |-> "nil"]]
    /\ patch = [p \in PatchProcs |-> IdlePatch]
    /\ patchRet = [p \in PatchProcs |-> [status |-> 0, err |-> "none", item |-> ZeroItem, at |-> 0]]
    /\ nCalls = 0
    /\ lastPatched = EmptyTable
    /\ lastValid = EmptyTable
    /\ resynced = FALSE

NoOverdue == [dueAt |-> "", createdAt |-> "", now |-> 0, by |-> "none", days |-> 0]
NoAlgebra == [items |-> <<>>, applied |-> 0, start |-> EmptyTable, once |-> EmptyTable]
NoList == [status |-> 0, f |-> [Kind |-> "", RepoFullName |-> ""], at |-> 0, items |-> <<>>]
NoCommute == [a |-> <<>>, b |-> <<>>, done |-> FALSE, ab |-> EmptyTable, ba |-> EmptyTable]
NoWalk == [pc |-> "none", page |-> 0, requests |-> 0, last |-> "none", out |-> <<>>, err |-> "nil"]
NoFetch == [pc |-> "none", raw |-> <<>>, start |-> EmptyTable, items |-> <<>>, count |-> 0,
            err |-> "nil"]
NoSync == [pc |-> "none"]
NoUI == [pc |-> "none"]

InitRemote == walk = NoWalk /\ fetch = NoFetch /\ sync = NoSync /\ ui = NoUI

\* the server after Migrate on a new database: no rows
Init ==
    /\ table = EmptyTable
    /\ InitCalls
    /\ ov = NoOverdue
    /\ alg = NoAlgebra
    /\ listRet = NoList
    /\ InitRemote
    /\ com = NoCommute

Next ==
    \/ \E u \in UpsertProcs : UpsertStep(u)
    \/ \E p \in PatchProcs : PatchStep(p)

Spec == Init /\ [][Next]_vars

\* one row and one instant, before its overdue days are derived
InitOverdue ==
    /\ table = EmptyTable
    /\ InitCalls
    /\ alg = NoAlgebra
    /\ listRet = NoList
    /\ InitRemote
    /\ com = NoCommute
    /\ \E in \in OverdueInputs :
          ov = [dueAt |-> in.dueAt, createdAt |-> in.createdAt, now |-> in.now,
                by |-> "none", days |-> 0]

NextOverdue ==
    \/ ListRowOverdue
    \/ PatchRowOverdue

SpecOverdue == InitOverdue /\ [][NextOverdue]_vars

\* a table some earlier calls left, and the batches of two fetches
InitCommute ==
    /\ table \in StartTables
    /\ InitCalls
    /\ ov = NoOverdue
    /\ alg = NoAlgebra
    /\ listRet = NoList
    /\ InitRemote
    /\ \E a \in Batches, b \in Batches :
          com = [a |-> a, b |-> b, done |-> FALSE, ab |-> EmptyTable, ba |-> EmptyTable]

NextCommute == UpsertBothOrders

SpecCommute == InitCommute /\ [][NextCommute]_vars

InitCalc == ov = NoOverdue /\ alg = NoAlgebra /\ listRet = NoList /\ com = NoCommute

\* listPaged entered: out is empty and page is 1
InitPages ==
    /\ table = EmptyTable
    /\ InitCalls
    /\ InitCalc
    /\ walk = [pc |-> "loop", page |-> 1, requests |-> 0, last |-> "none", out |-> <<>>,
               err |-> "nil"]
    /\ fetch = NoFetch
    /\ sync = NoSync
    /\ ui = NoUI

NextPages ==
    \/ WalkBadURL
    \/ PageItems
    \/ PageEmpty
    \/ \E e \in PageErrors : PageFail(e)
    \/ WalkCapped

SpecPages == InitPages /\ [][NextPages]_vars

\* every request gets its response (the client's 20 s timeout) and the loop goes on
SpecPagesFair == SpecPages /\ WF_vars(NextPages)

\* two sync runs and two PATCH requests at a time
RaceUpsertProcs == {"u1", "u2"}
RacePatchProcs == {"p1", "p2"}

\* the batch each sync run fetched: the two versions of the issue
RaceBatchOf(u) ==
    IF u = "u1"
    THEN << CoreItem(Issue1, "crash", "open", "2024-01-01T00:00:00Z", "2024-01-01T00:00:00Z") >>
    ELSE << CoreItem(Issue1, "crash on start", "closed", "2024-01-01T00:00:00Z",
                     "2024-01-02T12:00:00Z"),
            CoreItem(Pull1, "fix crash", "open", "2024-01-02T12:00:00Z",
                     "2024-01-02T12:00:00Z") >>

\* the body of each PATCH request: one sets the priority only, the other the assignee only
RacePatchOf(p) == IF p = "p1" THEN [Priority |-> 1] ELSE [Assignee |-> "alice"]

\* the server with the issue's row in the table and no request running
InitRace ==
    /\ table = UpsertTable(EmptyTable, RaceBatchOf("u1"))
    /\ dbLock = "free"
    /\ tx = [u \in RaceUpsertProcs |-> IdleTx]
    /\ upsertRet = [u \in RaceUpsertProcs |-> [count |-> 0, err |-> "nil"]]
    /\ patch = [p \in RacePatchProcs |-> IdlePatch]
    /\ patchRet = [p \in RacePatchProcs |->
                     [status |-> 0, err |-> "none", item |-> ZeroItem, at |-> 0]]
    /\ nCalls = 0
    /\ lastPatched = EmptyTable
    /\ lastValid = EmptyTable
    /\ resynced = FALSE
    /\ InitCalc
    /\ InitRemote

NextRace ==
    \/ \E u \in RaceUpsertProcs :
          \/ UpsertBegin(u, RaceBatchOf(u))
          \/ UpsertExec(u)
          \/ UpsertExecFail(u)
          \/ UpsertCommit(u)
          \/ UpsertCommitFail(u)
    \/ \E p \in RacePatchProcs :
          \/ PatchSelect(p, Issue1, RacePatchOf(p))
          \/ \E now \in PatchInstants : PatchUpdate(p, now)
          \/ PatchUpdateFail(p)

SpecRace == InitRace /\ [][NextRace]_vars

\* listPaged entered, against a remote that holds some pages of raw records
InitRemoteWalk ==
    /\ table = EmptyTable
    /\ InitCalls
    /\ InitCalc
    /\ \E n \in 0..MaxRemotePages :
         \E remote \in [1..n -> SyncListings] :
            walk = [pc |-> "loop", page |-> 1, requests |-> 0, last |-> "none", out |-> <<>>,
                    err |-> "nil", remote |-> remote]
    /\ fetch = NoFetch
    /\ sync = NoSync
    /\ ui = NoUI

NextRemoteWalk ==
    \/ RemotePage
    \/ RemotePageEmpty

SpecRemoteWalk == InitRemoteWalk /\ [][NextRemoteWalk]_vars

\* a page of raw records has arrived; the table is one some earlier calls left
InitFetch ==
    /\ table \in StartTables
    /\ InitCalls
    /\ InitCalc
    /\ \E raw \in RawPages :
          fetch = [pc |-> "raw", raw |-> raw, start |-> table, items |-> <<>>, count |-> 0,
                   err |-> "nil"]
    /\ walk = NoWalk
    /\ sync = NoSync
    /\ ui = NoUI

NextFetch ==
    \/ GetList
    \/ \E e \in PageErrors : GetListFail(e)
    \/ FetchUpsert
    \/ FetchUpsertFail

SpecFetch == InitFetch /\ [][NextFetch]_vars

\* a row is being edited on one of the three pages; the server holds its overlay
InitSave ==
    /\ table = EmptyTable
    /\ InitCalls
    /\ InitCalc
    /\ walk = NoWalk
    /\ fetch = NoFetch
    /\ sync = NoSync
    /\ \E path \in SavePaths, stored \in BOOLEAN :
         \E draft \in Drafts(path),
            err \in IF path = "board" THEN {"none", "reason required"} ELSE {"none"} :
            ui = [pc |-> "edit", path |-> path, draft |-> draft, hasDraft |-> TRUE,
                  stored |-> [note |-> <<"old">>, syncInternal |-> stored],
                  list |-> [note |-> <<"old">>, syncInternal |-> stored],
                  sent |-> NoRequest, published |-> FALSE, formError |-> err,
                  saving |-> FALSE, thrown |-> FALSE, notify |-> "none",
                  saves |-> 0, first |-> [note |-> <<>>, reason |-> Undefined],
                  refresh |-> "none", snapshot |-> [note |-> <<>>, syncInternal |-> FALSE]]

NextSave ==
    \/ BoardSaveReject
    \/ BoardSaveSend
    \/ BoardPatchOk
    \/ BoardPatchFail
    \/ RepoPageSaveSend
    \/ RepoPagePatchOk
    \/ RepoPagePatchFail
    \/ AppSaveSend
    \/ AppPatchOk
    \/ AppPatchFail
    \/ NotifyOk
    \/ NotifyFail
    \/ BoardEditAgain

SpecSave == InitSave /\ [][NextSave]_vars

\* a save next to a refresh or a sync-then-refresh of the item list
NextRefresh ==
    \/ NextSave
    \/ RefreshStart
    \/ DoSyncStart
    \/ DoSyncDone
    \/ RefreshRead
    \/ RefreshDone
    \/ RefreshFail

SpecRefresh == InitSave /\ [][NextRefresh]_vars

\* a POST /api/sync request arrives, with or without GITCODE_TOKEN in the environment
InitSync ==
    /\ table \in SyncStartTables
    /\ InitCalls
    /\ InitCalc
    /\ \E token \in BOOLEAN :
          sync = [pc |-> "start", token |-> token, idx |-> 0, issues |-> <<>>, core |-> <<>>,
                  fetched |-> 0, upserted |-> 0, resp |-> SyncResponse(0, [error |-> "none"]),
                  calls |-> <<>>, received |-> 0, skipped |-> 0, failed |-> 0,
                  start |-> table, committed |-> table]
    /\ walk = NoWalk
    /\ fetch = NoFetch
    /\ ui = NoUI

NextSync ==
    \/ SyncReject
    \/ SyncBegin
    \/ \E raw \in SyncListings : FetchIssues(raw)
    \/ \E e \in PageErrors : FetchIssuesFail(e)
    \/ \E raw \in SyncListings : FetchPulls(raw)
    \/ \E e \in PageErrors : FetchPullsFail(e)
    \/ SyncUpsert
    \/ SyncUpsertFail
    \/ SyncFinish

SpecSync == InitSync /\ [][NextSync]_vars

\* one UpsertCore call on a table some earlier calls left, its transaction begun
InitBatch ==
    /\ table \in StartTables
    /\ dbLock = "free"
    /\ \E items \in WideBatches :
          tx = [u \in UpsertProcs |->
                   [pc |-> "loop", items |-> items, i |-> 1, count |-> 0, view |-> EmptyTable]]
    /\ upsertRet = [u \in UpsertProcs |-> [count |-> 0, err |-> "pending"]]
    /\ patch = [p \in PatchProcs |-> IdlePatch]
    /\ patchRet = [p \in PatchProcs |-> [status |-> 0, err |-> "none", item |-> ZeroItem, at |-> 0]]
    /\ nCalls = 1
    /\ lastPatched = EmptyTable
    /\ lastValid = EmptyTable
    /\ resynced = FALSE
    /\ ov = NoOverdue
    /\ alg = NoAlgebra
    /\ listRet = NoList
    /\ InitRemote
    /\ com = NoCommute

NextBatch ==
    \E u \in UpsertProcs :
        \/ UpsertSkip(u)
        \/ UpsertExec(u)
        \/ UpsertExecFail(u)
        \/ UpsertCommit(u)
        \/ UpsertCommitFail(u)

SpecBatch == InitBatch /\ [][NextBatch]_vars

\* a table with rows of two repositories, read by GET /api/items
InitList ==
    /\ table \in ListTables
    /\ InitCalls
    /\ ov = NoOverdue
    /\ alg = NoAlgebra
    /\ listRet = NoList
    /\ InitRemote
    /\ com = NoCommute

NextList ==
    \/ \E f \in ListFilters, now \in ListInstants : ListItems(f, now)
    \/ \E f \in ListFilters : ListItemsFail(f)

SpecList == InitList /\ [][NextList]_vars

\* a table some earlier calls left, and a batch about to be applied twice
InitAlgebra ==
    /\ table \in StartTables
    /\ InitCalls
    /\ ov = NoOverdue
    /\ listRet = NoList
    /\ InitRemote
    /\ com = NoCommute
    /\ \E items \in Batches :
          alg = [items |-> items, applied |-> 0, start |-> table, once |-> EmptyTable]

NextAlgebra == UpsertCoreAll

SpecAlgebra == InitAlgebra /\ [][NextAlgebra]_vars

----------------------------------------------------------------------------
(* Claims *)

\* the column a patch field is stored in
ColumnOf(f) ==
    CASE f = "Assignee" -> "assignee"
      [] f = "AssigneeGroup" -> "assignee_group"
      [] f = "Note" -> "note"
      [] f = "EstimatedResolveAt" -> "estimated_resolve_at"
      [] f = "SyncInternal" -> "sync_internal"
      [] f = "Priority" -> "priority"
      [] f = "DueAt" -> "due_at"

\* the SELECT of a PATCH request of p for identity id is executed in this step
PatchLookup(p, id) == PatchNotFound(p, id) \/ PatchSelect(p, id, patch'[p].p)

\* a step of the UpsertCore call of u
UpsertCallStep(u) ==
    \/ UpsertEmpty(u)
    \/ UpsertBegin(u, tx'[u].items)
    \/ UpsertBeginFail(u)
    \/ UpsertSkip(u)
    \/ UpsertExec(u)
    \/ UpsertExecFail(u)
    \/ UpsertCommit(u)
    \/ UpsertCommitFail(u)

\* the UPDATE of p's running PatchCustom succeeds in this step
PatchWrites(p) == patch[p].pc = "update" /\ patchRet'[p].status = 200

\* C1: once a patch has written the overlay columns of a row, they stay exactly
\* as written through every later UpsertCore, whatever records it carries.
OverlayPreserved ==
    \A id \in DOMAIN lastPatched :
        id \in DOMAIN table /\ Overlay(table[id]) = lastPatched[id]

\* C1 witness: a row was patched away from the defaults and an UpsertCore
\* committed afterwards has changed its external columns.
OverlayPreservedWitness ==
    /\ resynced
    /\ \E id \in DOMAIN lastPatched :
          lastPatched[id] # DefaultOverlay /\ Overlay(table[id]) = lastPatched[id]

\* C2: UpsertCore applied a second time with the same batch leaves the table
\* that its first application left.
UpsertIdempotent == alg.applied = 2 => table = alg.once

\* C2 witness: a batch that changed the table has been applied twice.
UpsertIdempotentWitness ==
    alg.applied = 2 /\ alg.once # alg.start /\ alg.start # EmptyTable

\* C3: the UPDATE of a patch stores, in the column of every field absent from
\* the patch, the value the row had when the call read it.
PartialPatch ==
    [][\A p \in PatchProcs :
          PatchWrites(p) =>
              \A f \in PatchFields \ DOMAIN patch[p].p :
                  table'[patch[p].id][ColumnOf(f)] = OverlayOf(patch[p].before)[ColumnOf(f)]]_vars

\* C3 witness: a patch carrying only priority has been written to a row whose
\* other overlay columns an earlier patch had set.
PartialPatchWitness ==
    \E p \in PatchProcs :
        /\ patchRet[p].status = 200
        /\ patchRet[p].item.Priority = 1
        /\ patchRet[p].item.Assignee = "bob"
        /\ Overlay(table[IdentOf(patchRet[p].item)]) = OverlayOf(patchRet[p].item)

\* C4: a PATCH request for an identity without a row, whose lookup is executed,
\* is answered 404 with the not-found error, starts no write and leaves the
\* table unchanged.
NotFoundSignal ==
    [][\A p \in PatchProcs, id \in PatchTargets :
          (PatchLookup(p, id) /\ id \notin DOMAIN table) =>
              /\ patchRet'[p].err = "not found"
              /\ patchRet'[p].status = 404
              /\ patch'[p].pc = "idle"
              /\ table' = table]_vars

\* C4 witness: not-found has been answered while the table holds other rows.
NotFoundWitness ==
    /\ table # EmptyTable
    /\ \E p \in PatchProcs : patchRet[p].status = 404 /\ patchRet[p].err = "not found"

\* C5: no step of an UpsertCore call changes the table except its commit; the
\* commit installs the whole post-batch table and returns the number of records
\* written; a failed call returns an error.
BatchAtomic ==
    [][\A u \in UpsertProcs :
          /\ UpsertCommit(u) =>
                /\ table' = UpsertTable(table, tx[u].items)
                /\ upsertRet'[u] = [count |-> Written(tx[u].items), err |-> "nil"]
          /\ (UpsertCallStep(u) /\ ~UpsertCommit(u)) => table' = table
          /\ (UpsertBeginFail(u) \/ UpsertExecFail(u) \/ UpsertCommitFail(u)) =>
                upsertRet'[u] = [count |-> 0, err |-> "storage"]]_vars

\* C5 witness: mid-batch, the first record is written inside the transaction
\* and the table readers see does not show it.
BatchAtomicWitness ==
    \E u \in UpsertProcs :
        /\ tx[u].pc = "loop"
        /\ dbLock = u
        /\ tx[u].count = 1
        /\ tx[u].i <= Len(tx[u].items)
        /\ tx[u].view # table

\* C6 as amended: the external columns of every row are those of the last
\* written (not skipped) record for its identity in the most recent committed
\* batch that wrote the identity.
ExternalReflectsLastWritten ==
    \A id \in DOMAIN table :
        id \in DOMAIN lastValid /\ External(table[id]) = lastValid[id]

\* C6 witness: a patched row whose external columns a later commit replaced.
ExternalReflectsWitness ==
    /\ resynced
    /\ \E id \in DOMAIN lastPatched :
          External(table[id]) = lastValid[id] /\ table[id].state = "closed"

\* C6 as claimed: after a commit, every row whose identity the batch contained
\* carries the external attributes of the batch's record for it.
ExternalReflectsLastContained ==
    [][\A u \in UpsertProcs :
          UpsertCommit(u) =>
              \A id \in DOMAIN table' :
                  LastOf(tx[u].items, id, FALSE) > 0 =>
                      External(table'[id]) = ExternalOf(tx[u].items[LastOf(tx[u].items, id, FALSE)])]_vars

\* C7: between the SELECT and the UPDATE of a PatchCustom call nothing else
\* writes the row it addresses.
PatchReadWriteAtomic ==
    [][\A p \in PatchProcs :
          patch[p].pc = "update" =>
              (table'[patch[p].id] = table[patch[p].id] \/ patch'[p].pc = "idle")]_vars

\* C8: the record a successful patch returns equals, field by field, the row
\* stored right after its UPDATE, with overdue days derived from the merged due date.
PatchReturnsStoredRow ==
    [][\A p \in PatchProcs :
          PatchWrites(p) =>
              LET stored == ScanItem(patch[p].id, table'[patch[p].id])
                  now == patchRet'[p].at
              IN  patchRet'[p].item =
                      [stored EXCEPT !.OverdueDays = computeOverdueDays(stored.DueAt, now)]]_vars

\* the instant a due string denotes, or -1
DueInstant(s) ==
    IF s = "" THEN -1 ELSE IF ContainsT(s) THEN ParseRFC3339(s) ELSE ParseDate(s)

\* C9: with a due date that parses to T and now >= T, the overdue days are
\* floor((now - T) / 1 day).
OverdueExplicitDue ==
    (ov.by # "none" /\ DueInstant(ov.dueAt) # -1 /\ ov.now >= DueInstant(ov.dueAt)) =>
        ov.days = (ov.now - DueInstant(ov.dueAt)) \div HoursPerDay

\* C9 witness: due_at = T, now = T + 3 days, overdue days 3.
OverdueExplicitDueWitness ==
    /\ ov.by # "none"
    /\ ov.dueAt = "2024-01-02"
    /\ ov.now = DueInstant("2024-01-02") + 3 * HoursPerDay
    /\ ov.days = 3

\* the arithmetic of the explicit-due path, against the target instant t
DaysPast(t, now) == IF now < t THEN 0 ELSE TruncDiv(now - t, HoursPerDay)

\* C10: without a due date that parses, and with created_at parsing to T, the
\* overdue days of listing and patch are those of the target T + 14 days.
OverdueFallback ==
    (ov.by # "none" /\ DueInstant(ov.dueAt) = -1 /\ DueInstant(ov.createdAt) # -1) =>
        ov.days = DaysPast(DueInstant(ov.createdAt) + FallbackDays * HoursPerDay, ov.now)

\* C11: with a due date that parses to T, the overdue days are the signed
\* floor((now - T) / 1 day) at every now, negative while now is before T.
OverdueSignedFloor ==
    (ov.by # "none" /\ DueInstant(ov.dueAt) # -1) =>
        ov.days = (ov.now - DueInstant(ov.dueAt)) \div HoursPerDay

\* the effective due instant of a listed item: its due date when that parses,
\* else 14 days after its creation, else -1
EffectiveDue(it) ==
    IF DueInstant(it.DueAt) # -1 THEN DueInstant(it.DueAt)
    ELSE IF DueInstant(it.CreatedAt) # -1
         THEN DueInstant(it.CreatedAt) + FallbackDays * HoursPerDay
         ELSE -1

\* C12: a listing returns its items by effective due date descending, an item
\* without a due date standing at 14 days after its creation.
ListByEffectiveDue ==
    listRet.status = 200 =>
        \A i, j \in 1..Len(listRet.items) :
            i < j => EffectiveDue(listRet.items[i]) >= EffectiveDue(listRet.items[j])

\* C13 as amended: a listing is sorted by the stored due_at text descending and,
\* among equal due_at, by the stored updated_at text descending.
ListSortedByKeys ==
    listRet.status = 200 =>
        \A i, j \in 1..Len(listRet.items) :
            i < j =>
                LET a == listRet.items[i]
                    b == listRet.items[j]
                IN  /\ TextRank(a.DueAt) >= TextRank(b.DueAt)
                    /\ a.DueAt = b.DueAt => TextRank(a.UpdatedAt) >= TextRank(b.UpdatedAt)

\* C13 witness: three items listed, two of them with the same due date and
\* different update times, the third with another due date.
ListSortedWitness ==
    /\ listRet.status = 200
    /\ Len(listRet.items) = 3
    /\ listRet.items[1].DueAt # listRet.items[2].DueAt
    /\ listRet.items[2].DueAt = listRet.items[3].DueAt
    /\ listRet.items[2].UpdatedAt # listRet.items[3].UpdatedAt

\* C13 as claimed: the two sort keys order every pair of listed items, so the
\* table determines the listing.
ListOrderTotal ==
    listRet.status = 200 =>
        \A i, j \in 1..Len(listRet.items) :
            i < j =>
                LET a == listRet.items[i]
                    b == listRet.items[j]
                IN  \/ TextRank(a.DueAt) > TextRank(b.DueAt)
                    \/ a.DueAt = b.DueAt /\ TextRank(a.UpdatedAt) > TextRank(b.UpdatedAt)

\* the rows of the table that match every supplied filter
Matching(f) ==
    {id \in DOMAIN table :
        /\ f.Kind = "" \/ id[1] = f.Kind
        /\ f.RepoFullName = "" \/ id[2] = f.RepoFullName}

\* C14: a listing holds every row that matches all supplied filters exactly
\* once, as stored, and nothing else.
ListExactlyMatching ==
    listRet.status = 200 =>
        /\ {IdentOf(listRet.items[i]) : i \in 1..Len(listRet.items)} = Matching(listRet.f)
        /\ Len(listRet.items) = Cardinality(Matching(listRet.f))
        /\ \A i \in 1..Len(listRet.items) :
              LET it == listRet.items[i]
              IN  [it EXCEPT !.OverdueDays = 0] = ScanItem(IdentOf(it), table[IdentOf(it)])

\* C14 witness: with rows of both kinds and both repositories in the table, a
\* listing filtered by kind and repository returns the one row that matches.
ListExactlyWitness ==
    /\ DOMAIN table = {Issue1, Pull1, Kernel7}
    /\ listRet.status = 200
    /\ listRet.f = [Kind |-> "issue", RepoFullName |-> "openeuler/yuanrong"]
    /\ Len(listRet.items) = 1
    /\ IdentOf(listRet.items[1]) = Issue1

\* C15: the priority of every stored row is one of urgent, high, medium, low.
PriorityInDomain ==
    \A id \in DOMAIN table : table[id].priority \in 0..PriorityLow

\* C16: a row a commit creates for an unseen identity has every overlay column
\* at its default, the priority being low.
NewRowOverlayDefaults ==
    [][\A u \in UpsertProcs :
          UpsertCommit(u) =>
              \A id \in DOMAIN table' \ DOMAIN table :
                  Overlay(table'[id]) = [DefaultOverlay EXCEPT !.priority = PriorityLow]]_vars

\* C17: the statement of UpsertCore, run for a record whose identity triple has
\* a row, rewrites that row and adds none; run for an unseen triple it adds one
\* row under that triple; every other row, the one of the other kind with the
\* same number included, stays as it is.
IdentityKeyed ==
    [][\A u \in UpsertProcs :
          UpsertExec(u) =>
              LET it == tx[u].items[tx[u].i]
                  id == <<it.Kind, it.RepoFullName, it.ExternalKey>>
                  before == TxView(u)
                  after == tx'[u].view
              IN  /\ DOMAIN after = DOMAIN before \cup {id}
                  /\ External(after[id]) = ExternalOf(it)
                  /\ \A k \in DOMAIN before \ {id} : after[k] = before[k]]_vars

\* C17 witness: the issue and the pull request with the same number are two
\* rows, and a later commit has rewritten one that a patch had found in place.
IdentityKeyedWitness ==
    /\ DOMAIN table = {Issue1, Pull1}
    /\ table[Issue1].title # table[Pull1].title
    /\ Issue1 \in DOMAIN lastPatched
    /\ resynced

\* C18: no step removes an identity triple from the table.
RowsNeverDeleted == [][DOMAIN table \subseteq DOMAIN table']_vars

\* C18 witness: two rows are stored and the last committed sync wrote only one
\* record, so it did not return the item of the other row.
RowsKeptWitness ==
    /\ {Issue1, Pull1} \subseteq DOMAIN table
    /\ nCalls >= 2
    /\ \E u \in UpsertProcs : upsertRet[u] = [count |-> 1, err |-> "nil"]

\* the identity triple a record carries
TripleOf(it) == <<it.Kind, it.RepoFullName, it.ExternalKey>>

\* a record with a key, a title and a repository name
ValidAsClaimed(it) == it.ExternalKey # "" /\ it.Title # "" /\ it.RepoFullName # ""

\* a record with a kind, a key, a title and a repository name
ValidWithKind(it) == it.Kind # "" /\ ValidAsClaimed(it)

\* UpsertCore of u skips exactly the records that are not Valid and goes on
\* with the batch, executes the statement for the others, and its commit
\* returns the number of Valid records, all of them stored
SkipsAndCounts(Valid(_), u) ==
    LET items == tx[u].items
        W == {i \in 1..Len(items) : Valid(items[i])}
    IN  /\ UpsertSkip(u) =>
              /\ ~Valid(items[tx[u].i])
              /\ tx'[u].pc = "loop"
              /\ tx'[u].count = tx[u].count
              /\ tx'[u].view = tx[u].view
              /\ upsertRet'[u].err = "pending"
        /\ UpsertExec(u) => Valid(items[tx[u].i])
        /\ UpsertCommit(u) =>
              /\ upsertRet'[u] = [count |-> Cardinality(W), err |-> "nil"]
              /\ DOMAIN table' = DOMAIN table \cup {TripleOf(items[i]) : i \in W}
              /\ \A i \in W :
                    \E j \in W :
                        /\ j >= i
                        /\ TripleOf(items[j]) = TripleOf(items[i])
                        /\ External(table'[TripleOf(items[i])]) = ExternalOf(items[j])

LastWritten(items, id) == ExternalOf(items[LastOf(items, id, TRUE)])

\* the two batches carry the same external data in their last written records
\* for every identity both write
AgreeOnShared(a, b) ==
    \A id \in WrittenIdents(a) \cap WrittenIdents(b) : LastWritten(a, id) = LastWritten(b, id)

\* C20 as amended: two batches that agree on the identities both write leave
\* the same table in either order of application.
UpsertCommutesOnAgreement ==
    (com.done /\ AgreeOnShared(com.a, com.b)) => com.ab = com.ba

\* C20 witness: two different batches that both write the issue, with the same
\* last record for it, have been applied to a table they change.
UpsertCommutesWitness ==
    /\ com.done
    /\ com.a # com.b
    /\ Issue1 \in WrittenIdents(com.a) \cap WrittenIdents(com.b)
    /\ Len(com.a) = 2
    /\ LastWritten(com.a, Issue1) # ExternalOf(com.a[1])
    /\ AgreeOnShared(com.a, com.b)
    /\ com.ab = table
    /\ com.ab # EmptyTable

\* C20 as claimed: any two batches leave the same table in either order of
\* application.
UpsertCommutes == com.done => com.ab = com.ba

\* C22: the page walk asks for pages 1, 2, ... in order, goes on only after a
\* page with items, never makes more than 50 requests, and ends.
PageWalkTerminates ==
    /\ [](/\ walk.requests <= PageCap
          /\ walk.pc = "loop" =>
                /\ walk.page = walk.requests + 1
                /\ walk.requests > 0 => walk.last = "items")
    /\ [][walk'.requests # walk.requests =>
              walk'.requests = walk.page /\ walk'.requests = walk.requests + 1]_vars
    /\ <>(walk.pc \in {"done", "failed"})

\* C22 witness: the remote never returned an empty page and the walk has ended
\* after 50 requests.
PageWalkWitness ==
    /\ walk.pc = "done"
    /\ walk.last = "items"
    /\ walk.requests = PageCap
    /\ Len(walk.out) = PageCap

\* C23: a page request that fails ends the walk with the error and no items;
\* after it no page is requested, the failed one included.
PageFailureAborts ==
    [][/\ (walk.pc = "loop" /\ walk'.last \in PageErrors) =>
              /\ walk'.pc = "failed"
              /\ walk'.err = walk'.last
              /\ walk'.out = <<>>
              /\ walk'.requests = walk.page
       /\ walk.pc = "failed" => walk' = walk]_vars

\* C23 witness: the third page failed after two pages with items.
PageFailureWitness ==
    /\ walk.pc = "failed"
    /\ walk.err = "status"
    /\ walk.requests = 3
    /\ walk.out = <<>>

\* the identity fields of a raw record, in the order they are probed
IdentityFields == <<"number", "iid", "id">>

\* the string form of field k of raw record m, "" when absent or unusable
FieldText(m, k) ==
    IF k \notin DOMAIN m THEN ""
    ELSE IF m[k].t = "string" THEN m[k].s
    ELSE IF m[k].t = "number" THEN ToString(m[k].n)
    ELSE ""

\* m has a usable identity field
HasIdentity(m) == \E i \in 1..3 : FieldText(m, IdentityFields[i]) # ""

\* the identity of m: its first usable identity field
IdentityOf(m) ==
    FieldText(m, IdentityFields[CHOOSE i \in 1..3 :
                                   /\ FieldText(m, IdentityFields[i]) # ""
                                   /\ \A j \in 1..(i - 1) : FieldText(m, IdentityFields[j]) = ""])

\* the positions of the valid records of a page: usable identity and a title
ValidRaw(raw) == {i \in 1..Len(raw) : HasIdentity(raw[i]) /\ FieldText(raw[i], "title") # ""}

\* C21: a fetched page that went through normalization and upsert has raised no
\* error, the rows of its valid records are in the table next to the rows that
\* were there, no row stands for a record without identity, and the count is
\* the number of valid records.
MalformedTolerated ==
    fetch.pc = "done" =>
        /\ fetch.err = "nil"
        /\ DOMAIN table = DOMAIN fetch.start \cup
                          {<<"issue", FetchRepo, IdentityOf(fetch.raw[i])>> : i \in ValidRaw(fetch.raw)}
        /\ fetch.count = Cardinality(ValidRaw(fetch.raw))
        /\ Len(fetch.items) = Cardinality({i \in 1..Len(fetch.raw) : HasIdentity(fetch.raw[i])})

\* C21 witness: a page of one record without identity between two valid ones,
\* fetched into an empty table: two rows, count 2.
MalformedToleratedWitness ==
    /\ fetch.pc = "done"
    /\ fetch.start = EmptyTable
    /\ Len(fetch.raw) = 3
    /\ ~HasIdentity(fetch.raw[2])
    /\ ValidRaw(fetch.raw) = {1, 3}
    /\ Cardinality(DOMAIN table) = 2
    /\ fetch.count = 2

\* the rows of table t that belong to a repository
RowsOf(t, repo) == [k \in {id \in DOMAIN t : id[2] = repo} |-> t[k]]

\* the requests the sync run made for the repository at position j
CallsFor(j) == {i \in 1..Len(sync.calls) : sync.calls[i][1] = j}

\* C24: a sync request without the remote credential makes no call to the
\* remote and writes nothing, and is answered 400 "missing GITCODE_TOKEN".
SyncNeedsCredential ==
    ~sync.token =>
        /\ sync.calls = <<>>
        /\ table = sync.start
        /\ sync.pc \in {"start", "done"}
        /\ sync.pc = "done" =>
              sync.resp = SyncResponse(400, [error |-> "missing GITCODE_TOKEN"])

SyncNeedsCredentialWitness ==
    /\ ~sync.token
    /\ sync.pc = "done"
    /\ sync.resp.status = 400
    /\ table # EmptyTable

\* C25: when the fetch of a repository fails, the run has written no row of
\* that repository, and the rows of the repositories before it are the rows
\* their upserts committed.
FetchFailureWritesNothing ==
    (sync.pc = "done" /\ sync.resp.status = 502) =>
        /\ sync.failed \in 1..Len(SyncRepos)
        /\ RowsOf(table, SyncRepos[sync.failed]) = RowsOf(sync.start, SyncRepos[sync.failed])
        /\ \A j \in 1..(sync.failed - 1) :
              RowsOf(table, SyncRepos[j]) = RowsOf(sync.committed, SyncRepos[j])

\* the pull listing of the second repository failed after its issues had been
\* fetched and after the first repository's rows were committed
FetchFailureWitness ==
    /\ sync.pc = "done"
    /\ sync.resp.status = 502
    /\ sync.failed = 2
    /\ sync.calls[Len(sync.calls)] = <<2, "pulls">>
    /\ sync.issues # <<>>
    /\ RowsOf(table, SyncRepos[1]) # RowsOf(sync.start, SyncRepos[1])

\* C26 as amended: a failed fetch ends the step of its repository and the run:
\* the answer is 502, and no repository after the failing one is requested or
\* written.
FetchFailureEndsRun ==
    sync.failed # 0 =>
        /\ sync.pc = "done"
        /\ sync.resp.status \in {500, 502}
        /\ \A j \in (sync.failed + 1)..Len(SyncRepos) :
              /\ CallsFor(j) = {}
              /\ RowsOf(table, SyncRepos[j]) = RowsOf(sync.start, SyncRepos[j])

FetchFailureEndsRunWitness ==
    /\ sync.pc = "done"
    /\ sync.resp.status = 502
    /\ sync.failed = 1
    /\ sync.calls = << <<1, "issues">> >>

\* C26 as stated: after a failed fetch the other repositories of the run are
\* still fetched.
FetchFailureOnlyItsRepo ==
    (sync.pc = "done" /\ sync.resp.status = 502) =>
        \A j \in 1..Len(SyncRepos) : j # sync.failed => CallsFor(j) # {}

\* C27: a run answers 200 only when every listing and every upsert of every
\* repository succeeded; a failed listing or upsert is answered with an error
\* status and the error's text.
NoSuccessAfterFailure ==
    (sync.pc = "done" /\ sync.token) =>
        /\ sync.resp.status = 200 <=> sync.failed = 0
        /\ sync.resp.status = 200 =>
              /\ sync.calls = << <<1, "issues">>, <<1, "pulls">>,
                                 <<2, "issues">>, <<2, "pulls">> >>
              /\ table = sync.committed
              /\ sync.resp.body = [fetched |-> sync.fetched, upserted |-> sync.upserted]
        /\ sync.failed # 0 =>
              /\ sync.resp.status \in {500, 502}
              /\ DOMAIN sync.resp.body = {"error"}
              /\ sync.resp.body.error \in PageErrors \cup {"storage"}

\* the upsert of the second repository failed after the first one's rows were
\* committed
NoSuccessAfterFailureWitness ==
    /\ sync.pc = "done"
    /\ sync.resp.status = 500
    /\ sync.failed = 2
    /\ table # sync.start

\* C28 as amended: in a successful run fetched >= upserted, and upserted is
\* below fetched exactly when a fetched record had no title and was skipped by
\* the upsert; a record dropped at normalization is counted in neither total.
CountsShowUpsertSkips ==
    (sync.pc = "done" /\ sync.resp.status = 200) =>
        /\ sync.resp.body.fetched >= sync.resp.body.upserted
        /\ sync.resp.body.fetched - sync.resp.body.upserted = sync.skipped
        /\ sync.received >= sync.resp.body.fetched

\* a run that lost one record at normalization and one at the upsert
CountsShowUpsertSkipsWitness ==
    /\ sync.pc = "done"
    /\ sync.resp.status = 200
    /\ sync.received > sync.resp.body.fetched
    /\ sync.skipped > 0
    /\ sync.resp.body.upserted < sync.resp.body.fetched

\* C28 as stated: whenever a received record was dropped, at normalization or
\* at the upsert, upserted is below fetched.
CountsShowEveryDrop ==
    (sync.pc = "done" /\ sync.resp.status = 200) =>
        /\ sync.resp.body.fetched >= sync.resp.body.upserted
        /\ sync.received > sync.resp.body.upserted =>
              sync.resp.body.upserted < sync.resp.body.fetched

\* C29: a request with syncInternal = false is sent only for a draft with a
\* non-blank reason, and carries the reason in its note after the tag; the
\* save of a draft with a blank reason sends nothing and leaves the stored
\* overlay as it was.
ReasonRequired ==
    /\ (ui.sent.made /\ ~ui.sent.syncInternal) =>
          /\ ~Blank(ui.draft.unsyncedReason)
          /\ ui.sent.note.def
          /\ \E i \in 1..Len(ui.sent.note.text) :
                /\ ui.sent.note.text[i] = ReasonTag
                /\ SubSeq(ui.sent.note.text, i + 1, Len(ui.sent.note.text))
                     = Trim(ui.draft.unsyncedReason.text)
    /\ (ui.pc = "done" /\ ~ui.draft.syncInternal /\ Blank(ui.draft.unsyncedReason)) =>
          /\ ~ui.sent.made
          /\ ui.stored.note = <<"old">>

\* C30: once the patch of a save has succeeded and the notification is under
\* way, the row is stored, published, its draft cleared and no error shown,
\* and the notification's end, good or bad, changes none of it.
NotifyNeverFailsSave ==
    /\ [](ui.notify # "none" =>
            /\ ui.pc = "done"
            /\ ui.stored = StoredAfter(ui.stored, ui.sent)
            /\ ui.published
            /\ ~ui.hasDraft
            /\ ui.formError = "none"
            /\ ~ui.thrown
            /\ ~ui.saving)
    /\ [][ui.notify # "none" => ui' = [ui EXCEPT !.notify = ui'.notify]]_vars

NotifyFailedWitness ==
    /\ ui.notify = "failed"
    /\ ui.published
    /\ ui.stored.syncInternal
    /\ ui.stored.note = <<"wip">>

\* C31: a save whose patch succeeded with syncInternal = true has started one
\* notification, on every save path; a save whose patch failed, or succeeded
\* with syncInternal = false, has started none.
NotifyAfterEveryPatch ==
    (ui.pc = "done" /\ ui.sent.made) =>
        (ui.notify # "none" <=> (ui.published /\ ui.stored.syncInternal))

\* the overlay fields of a patch that carry text
TextFields == {"Assignee", "AssigneeGroup", "Note", "EstimatedResolveAt", "DueAt"}

\* C32: the UPDATE of a patch stores, for every text field present in the
\* patch, the patch's value, the empty string included, and for every text
\* field absent from it the value the call read.
ExplicitEmptyStored ==
    [][\A p \in PatchProcs :
          PatchWrites(p) =>
              \A f \in TextFields :
                  table'[patch[p].id][ColumnOf(f)] =
                      IF f \in DOMAIN patch[p].p THEN patch[p].p[f]
                      ELSE OverlayOf(patch[p].before)[ColumnOf(f)]]_vars

\* C32 witness: a patch with an empty assignee and no note has emptied the
\* assignee an earlier patch had set, and the note of that patch is still there.
ExplicitEmptyWitness ==
    \E p \in PatchProcs :
        /\ patchRet[p].status = 200
        /\ patchRet[p].item.Assignee = ""
        /\ patchRet[p].item.Note = "wip"
        /\ table[IdentOf(patchRet[p].item)].assignee = ""
        /\ table[IdentOf(patchRet[p].item)].note = "wip"

\* the normalized records of the pages from page on, up to the first page on
\* which the remote holds no record
RECURSIVE UntilZeroRecords(_, _)
UntilZeroRecords(remote, page) ==
    IF page > Len(remote) \/ remote[page] = <<>> THEN <<>>
    ELSE Normalize(remote[page]) \o UntilZeroRecords(remote, page + 1)

\* C33: a finished walk returns every record with an identity key of every
\* page before the first page on which the remote holds zero records.
WalkEndsOnZeroRecords ==
    walk.pc = "done" => walk.out = UntilZeroRecords(walk.remote, 1)

\* C34: when the PATCH requests that set only the priority and only the
\* assignee of one row have both succeeded, the row holds both values.
NoLostUpdate ==
    (\A p \in RacePatchProcs : patch[p].pc = "idle" /\ patchRet[p].status = 200) =>
        /\ table[Issue1].priority = RacePatchOf("p1").Priority
        /\ table[Issue1].assignee = RacePatchOf("p2").Assignee

\* C35: the external columns of every row are those of one fetched record.
ExternalFromOneRecord ==
    \A id \in DOMAIN table :
        \E u \in RaceUpsertProcs :
            \E i \in 1..Len(RaceBatchOf(u)) :
                /\ IdentOf(RaceBatchOf(u)[i]) = id
                /\ External(table[id]) = ExternalOf(RaceBatchOf(u)[i])

\* C35 witness: both runs have a transaction open on the issue, one of them
\* holds the write lock with its record written, and the table still shows the
\* other run's committed record.
ExternalFromOneWitness ==
    /\ tx["u1"].pc = "loop" /\ tx["u2"].pc = "loop"
    /\ dbLock = "u1"
    /\ tx["u1"].count = 1
    /\ External(table[Issue1]) = ExternalOf(RaceBatchOf("u2")[1])
    /\ External(tx["u1"].view[Issue1]) = ExternalOf(RaceBatchOf("u1")[1])

\* the first non-empty text of a list of candidate texts, "" when there is none
FirstNonEmpty(texts) ==
    IF \A i \in 1..Len(texts) : texts[i] = "" THEN ""
    ELSE texts[CHOOSE i \in 1..Len(texts) :
                   texts[i] # "" /\ \A j \in 1..(i - 1) : texts[j] = ""]

\* the texts of the candidate fields of m, in their order
Candidates(m, fields) == [i \in 1..Len(fields) |-> FieldText(m, fields[i])]

\* the text of field f of the object m holds under k, "" when k is no object
NestedText(m, k, f) ==
    IF k \in DOMAIN m /\ m[k].t = "object" THEN FieldText(m[k].m, f) ELSE ""

\* the position in raw of the k-th record that has an identity
KeptAt(raw, k) ==
    CHOOSE i \in 1..Len(raw) :
        /\ HasIdentity(raw[i])
        /\ Cardinality({j \in 1..i : HasIdentity(raw[j])}) = k

\* C36: the normalized items are, in order, the records of the page that have a
\* non-empty number, iid or id, and every attribute of an item is the first
\* non-empty text among its candidate fields in their order.
FirstCandidateTaken ==
    fetch.pc \in {"items", "done"} =>
        /\ Len(fetch.items) = Cardinality({i \in 1..Len(fetch.raw) : HasIdentity(fetch.raw[i])})
        /\ \A k \in 1..Len(fetch.items) :
              LET m == fetch.raw[KeptAt(fetch.raw, k)]
                  it == fetch.items[k]
              IN  /\ it.Key = FirstNonEmpty(Candidates(m, IdentityFields))
                  /\ it.Title = FirstNonEmpty(Candidates(m, <<"title">>))
                  /\ it.State = FirstNonEmpty(Candidates(m, <<"state">>))
                  /\ it.URL = FirstNonEmpty(Candidates(m, <<"html_url", "web_url", "url">>))
                  /\ it.CreatedAt = FirstNonEmpty(Candidates(m, <<"created_at", "createdAt">>))
                  /\ it.UpdatedAt = FirstNonEmpty(Candidates(m, <<"updated_at", "updatedAt">>))
                  /\ it.Author =
                       FirstNonEmpty(<< NestedText(m, "user", "login"),
                                        NestedText(m, "user", "username"),
                                        NestedText(m, "user", "name"),
                                        NestedText(m, "author", "login"),
                                        NestedText(m, "author", "username"),
                                        NestedText(m, "author", "name"),
                                        FieldText(m, "author") >>)

\* C36 witness: a page with a record that has iid and id, one whose number is
\* empty and whose id is not, and one without identity: keys "2" and "3".
FirstCandidateWitness ==
    /\ fetch.pc = "items"
    /\ Len(fetch.raw) = 3
    /\ DOMAIN fetch.raw[1] \cap {"number", "iid", "id"} = {"iid", "id"}
    /\ ~HasIdentity(fetch.raw[2])
    /\ FieldText(fetch.raw[3], "number") = "" /\ "number" \in DOMAIN fetch.raw[3]
    /\ Len(fetch.items) = 2
    /\ fetch.items[1].Key = "2"
    /\ fetch.items[2].Key = "3"

\* C37: the overdue days the backend computed for a row, in a listing or a
\* patch response, are the overdue days the repository board derives for the
\* same row at the same instant.
BackendMatchesBoard ==
    ov.by # "none" =>
        \A zone \in BrowserZones :
            ov.days = derivedOverdueDays(ov.dueAt, ov.createdAt, ov.now, zone)

\* C38: after a successful save from the repository board the stored note and
\* sync flag are those of the saved draft (the note with the reason folded in),
\* an emptied note included.
DraftStored ==
    (ui.path = "board" /\ ui.pc = "done" /\ ui.published /\ ~ui.hasDraft) =>
        /\ ui.stored.syncInternal = ui.draft.syncInternal
        /\ ui.stored.note = NoteForPatch(ui.draft).text

\* C39: a second save of the row from the board with syncInternal off and the
\* reason of the first save leaves the stored note as the first save left it.
SaveTwiceSameNote ==
    (ui.path = "board" /\ ui.saves = 2 /\ ~ui.draft.syncInternal
        /\ ui.draft.unsyncedReason = ui.first.reason) =>
        ui.stored.note = ui.first.note

\* C40: when a save has succeeded and no refresh or sync is in flight, the item
\* list shows the row as the server stores it.
ListShowsPatched ==
    (ui.pc = "done" /\ ui.published /\ ui.refresh \in {"none", "done", "failed"}) =>
        ui.list = ui.stored

====
